---------------------------- MODULE Spec2Model ----------------------------
(***************************************************************************)
(* pyarty: a schema of filesystem bundles with a writer (write_bundle) and *)
(* a reader (infer_bundle_from_directory).                                 *)
(*                                                                         *)
(* Python values are records tagged by t: none, str, int, bool, float,     *)
(* bytes, dict (items: a sequence of [k, v]), list (items), tuple (items), *)
(* callable (f), inst (cls, vals), obj (an arbitrary object).  Text is a   *)
(* TLA+ string, read character by character with SubSeq.  A path is the    *)
(* sequence of its segments below the working directory.                   *)
(***************************************************************************)
EXTENDS Integers, Sequences, FiniteSets, TLC

VARIABLES
    inputs,     \* what the caller supplies: declarations, instance, target, flags
    classes,    \* class id -> [name, fields]: the __bundle_definition__ of each class
    dirs,       \* filesystem: the set of directory paths
    files,      \* filesystem: file path -> text
    pc,         \* where the caller is
    err,        \* the exception that ended the call, or NoError
    plan,       \* the filesystem operations the running write has still to perform
    log,        \* the filesystem operations performed so far, in order
    result      \* what infer returned

vars == <<inputs, classes, dirs, files, pc, err, plan, log, result>>

----------------------------------------------------------------------------
(* Bounds of the model *)

\* elements in a Directory collection
MaxElems == 3

----------------------------------------------------------------------------
(* Text *)

Char(s, i) == SubSeq(s, i, i)

Digits == {"0", "1", "2", "3", "4", "5", "6", "7", "8", "9"}

LowerLetters ==
    {"a", "b", "c", "d", "e", "f", "g", "h", "i", "j", "k", "l", "m",
     "n", "o", "p", "q", "r", "s", "t", "u", "v", "w", "x", "y", "z"}

UpperToLower ==
    [A |-> "a", B |-> "b", C |-> "c", D |-> "d", E |-> "e", F |-> "f", G |-> "g",
     H |-> "h", I |-> "i", J |-> "j", K |-> "k", L |-> "l", M |-> "m", N |-> "n",
     O |-> "o", P |-> "p", Q |-> "q", R |-> "r", S |-> "s", T |-> "t", U |-> "u",
     V |-> "v", W |-> "w", X |-> "x", Y |-> "y", Z |-> "z"]

UpperLetters == DOMAIN UpperToLower

IsAlnum(c) == c \in Digits \cup LowerLetters \cup UpperLetters

\* str.lower()
RECURSIVE lower(_)
lower(s) ==
    IF s = "" THEN ""
    ELSE LET c == Char(s, 1)
         IN  (IF c \in UpperLetters THEN UpperToLower[c] ELSE c)
                 \o lower(SubSeq(s, 2, Len(s)))

\* str.rfind(c): the last position of character c in s, 0 when absent
rfind(s, c) ==
    IF \A i \in 1..Len(s) : Char(s, i) # c THEN 0
    ELSE CHOOSE i \in 1..Len(s) :
             Char(s, i) = c /\ \A j \in (i + 1)..Len(s) : Char(s, j) # c

\* str.find(c): the first position of character c in s, 0 when absent
find(s, c) ==
    IF \A i \in 1..Len(s) : Char(s, i) # c THEN 0
    ELSE CHOOSE i \in 1..Len(s) :
             Char(s, i) = c /\ \A j \in 1..(i - 1) : Char(s, j) # c

\* str.split(sep) for a one-character separator
RECURSIVE split(_, _)
split(s, sep) ==
    LET i == find(s, sep)
    IN  IF i = 0 THEN <<s>>
        ELSE <<SubSeq(s, 1, i - 1)>> \o split(SubSeq(s, i + 1, Len(s)), sep)

\* str.startswith / the "in" test for one character
startswith(s, c) == Len(s) > 0 /\ Char(s, 1) = c
contains(s, c) == find(s, c) # 0

\* str.strip(c), str.lstrip(c)
RECURSIVE lstrip(_, _)
lstrip(s, c) == IF startswith(s, c) THEN lstrip(SubSeq(s, 2, Len(s)), c) ELSE s

RECURSIVE rstrip(_, _)
rstrip(s, c) ==
    IF Len(s) > 0 /\ Char(s, Len(s)) = c
    THEN rstrip(SubSeq(s, 1, Len(s) - 1), c) ELSE s

strip(s, c) == rstrip(lstrip(s, c), c)

RECURSIVE join(_, _)
join(parts, sep) ==
    IF parts = <<>> THEN ""
    ELSE IF Len(parts) = 1 THEN parts[1]
    ELSE parts[1] \o sep \o join(Tail(parts), sep)

RECURSIVE Concat(_)
Concat(seqs) == IF seqs = <<>> THEN <<>> ELSE Head(seqs) \o Concat(Tail(seqs))


----------------------------------------------------------------------------
(* Python values *)

None == [t |-> "none"]
Str(s) == [t |-> "str", s |-> s]
PyInt(n) == [t |-> "int", n |-> n]
\* a float, kept as the text repr() gives it
PyFloat(r) == [t |-> "float", r |-> r]
Bool(b) == [t |-> "bool", b |-> b]
Bytes(s) == [t |-> "bytes", s |-> s]
Dict(items) == [t |-> "dict", items |-> items]
List(items) == [t |-> "list", items |-> items]
Tuple(items) == [t |-> "tuple", items |-> items]
\* a function: body names what it computes, params counts its positional
\* parameters, varargs tells whether it takes *args
Callable(body, params, varargs) ==
    [t |-> "callable", body |-> body, params |-> params, varargs |-> varargs]
Inst(cls, vals) == [t |-> "inst", cls |-> cls, vals |-> vals]
\* an object that is none of the above (not JSON-encodable, no attributes)
Obj == [t |-> "obj"]
KV(k, v) == [k |-> k, v |-> v]

\* dict.get(key): the value of the last item with that key, None without one
RECURSIVE get(_, _)
get(items, key) ==
    IF items = <<>> THEN None
    ELSE IF items[Len(items)].k = key THEN items[Len(items)].v
    ELSE get(SubSeq(items, 1, Len(items) - 1), key)

has_key(items, key) == \E i \in 1..Len(items) : items[i].k = key

\* d[key] = value on an insertion-ordered dict
setitem(items, key, value) ==
    IF has_key(items, key)
    THEN [i \in 1..Len(items) |->
             IF items[i].k = key THEN KV(key, value) ELSE items[i]]
    ELSE Append(items, KV(key, value))

\* str(value)
str(v) ==
    CASE v.t = "str" -> v.s
      [] v.t = "int" -> ToString(v.n)
      [] v.t = "float" -> v.r
      [] v.t = "bool" -> (IF v.b THEN "True" ELSE "False")
      [] v.t = "none" -> "None"
      [] OTHER -> "<object>"

\* the truth value of a Python object
truthy(v) ==
    CASE v.t = "none" -> FALSE
      [] v.t = "str" -> v.s # ""
      [] v.t = "bytes" -> v.s # ""
      [] v.t = "int" -> v.n # 0
      [] v.t = "float" -> v.r \notin {"0.0", "-0.0"}
      [] v.t = "bool" -> v.b
      [] v.t \in {"dict", "list", "tuple"} -> v.items # <<>>
      [] OTHER -> TRUE

----------------------------------------------------------------------------
(* Exceptions *)

NoError == [type |-> "none"]
Raise(type, what) == [type |-> type, what |-> what]
RaiseKey(type, what, key) == [type |-> type, what |-> what, key |-> key]
Ok(v) == [err |-> NoError, v |-> v]
Fail(e) == [err |-> e]
IsOk(r) == r.err = NoError

----------------------------------------------------------------------------
(* pathlib and the filesystem *)

\* Path(s): the segments of s; an absolute path starts with the segment "/"
Path(s) ==
    (IF startswith(s, "/") THEN <<"/">> ELSE <<>>)
        \o SelectSeq(split(s, "/"), LAMBDA x : x # "" /\ x # ".")

IsAbsolute(p) == p # <<>> /\ p[1] = "/"

\* p / s: an absolute right operand replaces the left one
DivPath(p, q) == IF IsAbsolute(q) THEN q ELSE p \o q
Div(p, s) == DivPath(p, Path(s))

\* str(path)
PathStr(p) ==
    IF p = <<>> THEN "."
    ELSE IF IsAbsolute(p) THEN "/" \o join(Tail(p), "/")
    ELSE join(p, "/")

Parent(p) == SubSeq(p, 1, Len(p) - 1)
Prefixes(p) == {SubSeq(p, 1, k) : k \in 0..Len(p)}
IsUnder(p, base) == Len(p) >= Len(base) /\ SubSeq(p, 1, Len(base)) = base

\* PurePath.suffix and PurePath.stem of a final segment
suffix(name) ==
    LET i == rfind(name, ".")
    IN  IF 1 < i /\ i < Len(name) THEN SubSeq(name, i, Len(name)) ELSE ""

stem(name) ==
    LET i == rfind(name, ".")
    IN  IF 1 < i /\ i < Len(name) THEN SubSeq(name, 1, i - 1) ELSE name

\* a filesystem is [dirs, files]
exists(fs, p) == p \in fs.dirs \/ p \in DOMAIN fs.files
is_dir(fs, p) == p \in fs.dirs
is_file(fs, p) == p \in DOMAIN fs.files

\* Path.iterdir(): the entries directly inside p
iterdir(fs, p) ==
    {q \in fs.dirs \cup DOMAIN fs.files : Len(q) = Len(p) + 1 /\ IsUnder(q, p)}

\* the entry the operating system reaches by the path p: a ".." segment
\* leaves the directory reached so far, and stays where nothing can be left
RECURSIVE ResolveFrom(_, _, _)
ResolveFrom(p, i, reached) ==
    IF i > Len(p) THEN reached
    ELSE IF p[i] # ".." THEN ResolveFrom(p, i + 1, Append(reached, p[i]))
    ELSE IF reached = <<"/">> THEN ResolveFrom(p, i + 1, reached)
    ELSE IF reached = <<>> \/ reached[Len(reached)] = ".."
    THEN ResolveFrom(p, i + 1, Append(reached, ".."))
    ELSE ResolveFrom(p, i + 1, Parent(reached))

Resolved(p) == ResolveFrom(p, 1, <<>>)

\* Path.mkdir(parents=True, exist_ok=True): every prefix of the path is made
mkdir(fs, p) ==
    IF Resolved(p) \in DOMAIN fs.files
    THEN [fs |-> fs, err |-> Raise("FileExistsError", PathStr(p))]
    ELSE IF \E q \in Prefixes(p) : Resolved(q) \in DOMAIN fs.files
    THEN [fs |-> fs, err |-> Raise("NotADirectoryError", PathStr(p))]
    ELSE [fs |-> [fs EXCEPT !.dirs = @ \cup {Resolved(q) : q \in Prefixes(p)}],
          err |-> NoError]

\* a write that opens its file for exclusive creation
write_file_exclusive(fs, p, data) ==
    IF p \in fs.dirs
    THEN [fs |-> fs, err |-> Raise("IsADirectoryError", PathStr(p))]
    ELSE IF p \in DOMAIN fs.files
    THEN [fs |-> fs, err |-> Raise("FileExistsError", PathStr(p))]
    ELSE IF Parent(p) \notin fs.dirs
    THEN [fs |-> fs, err |-> Raise("FileNotFoundError", PathStr(p))]
    ELSE [fs |-> [fs EXCEPT !.files = (p :> data) @@ @], err |-> NoError]

\* Path.write_text / write_bytes / open("w") followed by writes: the file
\* holds exactly data afterwards
write_file(fs, p, data) ==
    IF p \in fs.dirs
    THEN [fs |-> fs, err |-> Raise("IsADirectoryError", PathStr(p))]
    ELSE IF Parent(p) \in DOMAIN fs.files
    THEN [fs |-> fs, err |-> Raise("NotADirectoryError", PathStr(p))]
    ELSE IF Parent(p) \notin fs.dirs
    THEN [fs |-> fs, err |-> Raise("FileNotFoundError", PathStr(p))]
    ELSE [fs |-> [fs EXCEPT !.files =
                     [q \in DOMAIN @ \cup {p} |-> IF q = p THEN data ELSE @[q]]],
          err |-> NoError]

----------------------------------------------------------------------------
(* dsl.py: annotations *)

\* a plain class or type: get_origin is None
T(o) == [gen |-> FALSE, o |-> o, a |-> <<>>]
\* a parameterized generic o[a...]: get_origin is o, get_args is a
G(o, a) == [gen |-> TRUE, o |-> o, a |-> a]

\* the ... of tuple[X, ...]
Ellipsis == T("...")

get_origin(ann) == IF ann.gen THEN ann.o ELSE "None"
get_args(ann) == ann.a

RECURSIVE _strip_annotated(_)
_strip_annotated(annotation) ==
    IF get_origin(annotation) = "Annotated" /\ get_args(annotation) # <<>>
    THEN _strip_annotated(get_args(annotation)[1])
    ELSE annotation

_HINT_SOURCES == {"self", "field"}
_DEFAULT_HINT_SOURCE == "self"

_DIR_COLLECTION_ORIGINS ==
    {"list", "tuple", "set", "frozenset", "Sequence", "MutableSequence",
     "Set", "Iterable"}

_TEXT_SCALAR_TYPES == {"str", "int", "float"}
_LIST_ORIGINS == {"list", "Sequence", "MutableSequence"}
_MAPPING_ORIGINS == {"dict", "Mapping", "MutableMapping"}

\* decorated holds the names of the classes that carry __bundle_definition__
_is_bundle_class(candidate, decorated) ==
    ~candidate.gen /\ candidate.o \in decorated

RECURSIVE _contains_dir(_)
_contains_dir(annotation) ==
    IF get_origin(annotation) = "None" THEN FALSE
    ELSE IF get_origin(annotation) = "Dir" THEN TRUE
    ELSE \E i \in 1..Len(get_args(annotation)) :
             _contains_dir(get_args(annotation)[i])

\* the bundle class a Dir argument names (a str value), or None
RECURSIVE _extract_dir_payload(_, _)
_extract_dir_payload(argument, decorated) ==
    LET candidate == _strip_annotated(argument)
    IN  IF _is_bundle_class(candidate, decorated) THEN Str(candidate.o)
        ELSE IF get_origin(candidate) \in _DIR_COLLECTION_ORIGINS
        THEN IF get_args(candidate) = <<>> THEN None
             ELSE _extract_dir_payload(get_args(candidate)[1], decorated)
        ELSE None

\* the InvalidBundleAnnotation raised, or NoError
_validate_dir_annotation(annotation, decorated) ==
    IF Len(get_args(annotation)) # 1
    THEN Raise("InvalidBundleAnnotation", "Dir requires exactly one argument")
    ELSE IF _extract_dir_payload(get_args(annotation)[1], decorated) = None
    THEN Raise("InvalidBundleAnnotation", "Dir must reference a bundle class")
    ELSE NoError

_validate_file_annotation(annotation) ==
    IF Len(get_args(annotation)) # 1
    THEN Raise("InvalidBundleAnnotation", "File requires exactly one argument")
    ELSE IF _contains_dir(get_args(annotation)[1])
    THEN Raise("InvalidBundleAnnotation", "File payload cannot contain Dir")
    ELSE NoError

\* the kind once the validation has raised e or passed
Classified(e, kind) == IF e = NoError THEN Ok(kind) ELSE Fail(e)

\* Ok(the FieldKind), or the exception of the validation
_classify_field(annotation, decorated) ==
    IF get_origin(_strip_annotated(annotation)) = "Dir"
    THEN Classified(_validate_dir_annotation(_strip_annotated(annotation), decorated),
                    "dir")
    ELSE IF get_origin(_strip_annotated(annotation)) = "File"
    THEN Classified(_validate_file_annotation(_strip_annotated(annotation)), "file")
    ELSE Ok("value")

_dir_annotation_is_collection(annotation) ==
    IF Len(get_args(_strip_annotated(annotation))) # 1 THEN FALSE
    ELSE get_origin(_strip_annotated(get_args(_strip_annotated(annotation))[1]))
             \in _DIR_COLLECTION_ORIGINS

_top_layer(annotation) ==
    IF get_origin(_strip_annotated(annotation)) \in {"Dir", "File"}
    THEN Ok(get_origin(_strip_annotated(annotation)))
    ELSE Fail(Raise("InvalidBundleAnnotation", "Top-level annotation must be Dir or File"))

----------------------------------------------------------------------------
(* dsl.py: extension inference *)

RECURSIVE _is_text_scalar(_)
_is_text_scalar(annotation) ==
    IF get_origin(_strip_annotated(annotation)) = "None"
    THEN _strip_annotated(annotation).o \in _TEXT_SCALAR_TYPES
    ELSE IF get_origin(_strip_annotated(annotation)) = "Union"
    THEN get_args(_strip_annotated(annotation)) # <<>>
         /\ \A i \in 1..Len(get_args(_strip_annotated(annotation))) :
                _is_text_scalar(get_args(_strip_annotated(annotation))[i])
    ELSE FALSE

_is_mapping_type(annotation) ==
    IF ~_strip_annotated(annotation).gen
    THEN _strip_annotated(annotation).o \in _MAPPING_ORIGINS
    ELSE get_origin(_strip_annotated(annotation)) \in _MAPPING_ORIGINS

\* the extension of a payload annotation already stripped of Annotated
InferFromStripped(payload) ==
    IF _is_text_scalar(payload) THEN Str("txt")
    ELSE IF _is_mapping_type(payload) THEN Str("json")
    ELSE IF get_origin(payload) \in _LIST_ORIGINS /\ get_args(payload) = <<>> THEN None
    ELSE IF get_origin(payload) \in _LIST_ORIGINS /\ _is_mapping_type(get_args(payload)[1])
    THEN Str("jsonl")
    ELSE IF get_origin(payload) \in _LIST_ORIGINS /\ _is_text_scalar(get_args(payload)[1])
    THEN Str("txt")
    ELSE IF get_origin(payload) \in _MAPPING_ORIGINS THEN Str("json")
    ELSE IF get_origin(payload) = "Union"
            /\ \A i \in 1..Len(get_args(payload)) : _is_text_scalar(get_args(payload)[i])
    THEN Str("txt")
    ELSE None

\* the extension as a str value, or None
_infer_extension_from_payload(payload) == InferFromStripped(_strip_annotated(payload))

\* str.strip() of blanks, then one leading dot removed; empty is an error
_normalize_extension_value(extension) ==
    IF strip(extension, " ") = ""
    THEN Fail(Raise("BundleMetadataError", "Extension values cannot be empty"))
    ELSE IF startswith(strip(extension, " "), ".")
    THEN Ok(SubSeq(strip(extension, " "), 2, Len(strip(extension, " "))))
    ELSE Ok(strip(extension, " "))

\* what _infer_extension_from_file_annotation returns for the hinted extension
NormalizedHinted(hinted) ==
    IF truthy(hinted) THEN Str(_normalize_extension_value(hinted.s).v) ELSE None

_infer_extension_from_file_annotation(annotation) ==
    IF get_origin(_strip_annotated(annotation)) # "File" THEN None
    ELSE IF get_args(_strip_annotated(annotation)) = <<>> THEN None
    ELSE NormalizedHinted(
             _infer_extension_from_payload(get_args(_strip_annotated(annotation))[1]))

----------------------------------------------------------------------------
(* dsl.py: metadata normalization *)

Hint(kind, value, source) ==
    [t |-> "hint", kind |-> kind, value |-> value, source |-> source]

BundleMetadata(layer, index, data) ==
    [layer |-> layer, index |-> index, data |-> data]

\* the normalization taking text with either brace for a template
_normalize_hint_entry_either_brace(entry_name, value) ==
    IF value = None THEN Ok(None)
    ELSE IF value.t = "tuple" /\ Len(value.items) # 2
    THEN Fail(Raise("BundleMetadataError", entry_name \o " must be a value/source tuple"))
    ELSE
      LET hint_value == IF value.t = "tuple" THEN value.items[1] ELSE value
          hint_source == IF value.t = "tuple" THEN value.items[2]
                         ELSE Str(_DEFAULT_HINT_SOURCE)
          normalized_source == IF hint_source.t = "str"
                               THEN lower(strip(hint_source.s, " ")) ELSE ""
      IN  IF normalized_source \notin _HINT_SOURCES
          THEN Fail(Raise("BundleMetadataError", entry_name \o " source must be self or field"))
          ELSE IF hint_value.t = "callable"
          THEN Ok(Hint("callable", hint_value, normalized_source))
          ELSE IF hint_value.t = "str" /\ hint_value.s # ""
          THEN Ok(Hint(IF contains(hint_value.s, "{") \/ contains(hint_value.s, "}")
                       THEN "template" ELSE "literal",
                       hint_value, normalized_source))
          ELSE Fail(Raise("BundleMetadataError", "Unsupported value for " \o entry_name))

\* Ok(a Hint or None), or the BundleMetadataError
_normalize_hint_entry(entry_name, value) ==
    IF value = None THEN Ok(None)
    ELSE IF value.t = "tuple" /\ Len(value.items) # 2
    THEN Fail(Raise("BundleMetadataError", entry_name \o " must be a value/source tuple"))
    ELSE
      LET hint_value == IF value.t = "tuple" THEN value.items[1] ELSE value
          hint_source == IF value.t = "tuple" THEN value.items[2]
                         ELSE Str(_DEFAULT_HINT_SOURCE)
          normalized_source == IF hint_source.t = "str"
                               THEN lower(strip(hint_source.s, " ")) ELSE ""
      IN  IF normalized_source \notin _HINT_SOURCES
          THEN Fail(Raise("BundleMetadataError", entry_name \o " source must be self or field"))
          ELSE IF hint_value.t = "hint"
          THEN IF hint_value.source \notin _HINT_SOURCES
               THEN Fail(Raise("BundleMetadataError", "Hint source must be self or field"))
               ELSE Ok(hint_value)
          ELSE IF hint_value.t = "callable"
          THEN Ok(Hint("callable", hint_value, normalized_source))
          ELSE IF hint_value.t = "str"
          THEN IF hint_value.s = ""
               THEN Fail(Raise("BundleMetadataError", entry_name \o " cannot be an empty string"))
               ELSE Ok(Hint(IF contains(hint_value.s, "{") /\ contains(hint_value.s, "}")
                            THEN "template" ELSE "literal",
                            hint_value, normalized_source))
          ELSE Fail(Raise("BundleMetadataError", "Unsupported value for " \o entry_name))

\* the loop of _normalize_metadata_layer from item i on, normalized so far
RECURSIVE NormalizeLayerFrom(_, _, _)

\* the rest of an iteration once the hint of key is normalized
NormalizeWithHint(data, i, normalized, key, hint) ==
    IF ~IsOk(hint) THEN hint
    ELSE IF hint.v # None
    THEN NormalizeLayerFrom(data, i + 1, setitem(normalized, key, hint.v))
    ELSE NormalizeLayerFrom(data, i + 1, normalized)

\* the rest of an iteration once the extension is normalized
NormalizeWithExtension(data, i, normalized, ext) ==
    IF ~IsOk(ext) THEN ext
    ELSE NormalizeLayerFrom(data, i + 1, setitem(normalized, "extension", Str(ext.v)))

NormalizeLayerFrom(data, i, normalized) ==
    IF i > Len(data) THEN Ok(normalized)
    ELSE IF data[i].k \in {"name", "prefix"}
    THEN NormalizeWithHint(data, i, normalized, data[i].k,
                           _normalize_hint_entry(data[i].k, data[i].v))
    ELSE IF data[i].k = "extension"
    THEN IF data[i].v.t # "str"
         THEN Fail(Raise("AttributeError", "extension is not a str"))
         ELSE NormalizeWithExtension(data, i, normalized,
                                     _normalize_extension_value(data[i].v.s))
    ELSE NormalizeLayerFrom(data, i + 1, setitem(normalized, data[i].k, data[i].v))

_normalize_metadata_layer(layer, data) == NormalizeLayerFrom(data, 1, <<>>)

\* the entries of a sequence-valued layer, from entry i on
RECURSIVE ExpandLayerFrom(_, _, _, _)

\* entry i yielded with its normalized data
ExpandWithData(layer, entries, i, out, data) ==
    IF ~IsOk(data) THEN data
    ELSE ExpandLayerFrom(layer, entries, i + 1,
                         Append(out, BundleMetadata(layer, i - 1, data.v)))

ExpandLayerFrom(layer, entries, i, out) ==
    IF i > Len(entries) THEN Ok(out)
    ELSE IF entries[i].t # "dict"
    THEN Fail(Raise("BundleMetadataError", "Layer metadata must be mappings"))
    ELSE ExpandWithData(layer, entries, i, out,
                        _normalize_metadata_layer(layer, entries[i].items))

\* the single record of a mapping-valued layer
ExpandMapping(layer, data) ==
    IF ~IsOk(data) THEN data ELSE Ok(<<BundleMetadata(layer, 0, data.v)>>)

_expand_layer_metadata(layer, value) ==
    IF value.t = "dict"
    THEN ExpandMapping(layer, _normalize_metadata_layer(layer, value.items))
    ELSE IF value.t \in {"list", "tuple"}
    THEN ExpandLayerFrom(layer, value.items, 1, <<>>)
    ELSE Fail(Raise("BundleMetadataError",
                    "Layer metadata must be a mapping or sequence of mappings"))

\* a raw key naming a layer: the class itself or its name
LayerOfKey(key) ==
    IF key \in {"Dir", "<class Dir>"} THEN "Dir"
    ELSE IF key \in {"File", "<class File>"} THEN "File"
    ELSE "None"

_register_layer(target, layer, value) ==
    IF has_key(target, layer)
    THEN Fail(Raise("BundleMetadataError", "Duplicate metadata assignment for layer " \o layer))
    ELSE Ok(Append(target, KV(layer, value)))

\* the first loop of _normalize_metadata: regular keys and layer keys apart
RECURSIVE PartitionFrom(_, _, _, _)

PartitionRegistered(metadata, i, regular_keys, reg) ==
    IF ~IsOk(reg) THEN reg ELSE PartitionFrom(metadata, i + 1, regular_keys, reg.v)

PartitionFrom(metadata, i, regular_keys, layer_keys) ==
    IF i > Len(metadata)
    THEN Ok([regular_keys |-> regular_keys, layer_keys |-> layer_keys])
    ELSE IF LayerOfKey(metadata[i].k) # "None"
    THEN PartitionRegistered(metadata, i, regular_keys,
             _register_layer(layer_keys, LayerOfKey(metadata[i].k), metadata[i].v))
    ELSE PartitionFrom(metadata, i + 1, Append(regular_keys, metadata[i]), layer_keys)

\* the second loop of _normalize_metadata: every layer key expanded, in order
RECURSIVE ExtendFrom(_, _, _)

ExtendWith(layer_keys, i, normalized, more) ==
    IF ~IsOk(more) THEN more ELSE ExtendFrom(layer_keys, i + 1, normalized \o more.v)

ExtendFrom(layer_keys, i, normalized) ==
    IF i > Len(layer_keys) THEN Ok(normalized)
    ELSE ExtendWith(layer_keys, i, normalized,
                    _expand_layer_metadata(layer_keys[i].k, layer_keys[i].v))

_metadata_has_extension(metadata) ==
    \E i \in 1..Len(metadata) :
        metadata[i].layer = "File" /\ has_key(metadata[i].data, "extension")

\* dict.setdefault
setdefault(items, key, value) ==
    IF has_key(items, key) THEN items ELSE Append(items, KV(key, value))

\* the tuple returned once the inferred extension is normalized
AttachExtension(metadata, normalized_ext) ==
    IF metadata # <<>>
    THEN IF metadata[1].layer = "File"
         THEN [metadata EXCEPT ![1] =
                  BundleMetadata(@.layer, @.index,
                      setdefault(@.data, "extension", normalized_ext))]
         ELSE <<BundleMetadata("File", 0, <<KV("extension", normalized_ext)>>)>>
                  \o metadata
    ELSE <<BundleMetadata("File", 0, <<KV("extension", normalized_ext)>>)>>

AttachInferred(metadata, inferred) ==
    IF ~truthy(inferred) THEN metadata
    ELSE AttachExtension(metadata, Str(_normalize_extension_value(inferred.s).v))

_maybe_attach_extension(metadata, annotation, infer_extension) ==
    IF ~infer_extension THEN metadata
    ELSE IF _metadata_has_extension(metadata) THEN metadata
    ELSE AttachInferred(metadata, _infer_extension_from_file_annotation(annotation))

\* _normalize_metadata after its second loop
NormalizeExtended(annotation, infer_extension, all) ==
    IF ~IsOk(all) THEN all
    ELSE Ok(_maybe_attach_extension(all.v, annotation, infer_extension))

\* _normalize_metadata once the regular keys are normalized
NormalizeRegular(annotation, infer_extension, root_layer, layer_keys, plain) ==
    IF ~IsOk(plain) THEN plain
    ELSE NormalizeExtended(annotation, infer_extension,
             ExtendFrom(layer_keys, 1, <<BundleMetadata(root_layer, 0, plain.v)>>))

\* _normalize_metadata after its first loop
NormalizePartitioned(annotation, infer_extension, root_layer, parts) ==
    IF ~IsOk(parts) THEN parts
    ELSE IF parts.v.regular_keys # <<>>
    THEN NormalizeRegular(annotation, infer_extension, root_layer, parts.v.layer_keys,
             _normalize_metadata_layer(root_layer, parts.v.regular_keys))
    ELSE NormalizeExtended(annotation, infer_extension,
             ExtendFrom(parts.v.layer_keys, 1, <<>>))

\* _normalize_metadata once the root layer is known
NormalizeRooted(annotation, metadata, infer_extension, root_layer) ==
    IF ~IsOk(root_layer) THEN root_layer
    ELSE NormalizePartitioned(annotation, infer_extension, root_layer.v,
                              PartitionFrom(metadata, 1, <<>>, <<>>))

\* Ok(the tuple of BundleMetadata), or the exception
_normalize_metadata(annotation, metadata, infer_extension) ==
    NormalizeRooted(annotation, metadata, infer_extension, _top_layer(annotation))

----------------------------------------------------------------------------
(* dsl.py: the bundle decorator *)

\* twig(name=..., extension=..., prefix=...): the metadata of the field
twig(name, extension, prefix) ==
    (IF name # None THEN <<KV("name", name)>> ELSE <<>>)
        \o (IF extension # None
            THEN <<KV("extension", Str(_normalize_extension_value(extension.s).v))>>
            ELSE <<>>)
        \o (IF prefix # None THEN <<KV("prefix", prefix)>> ELSE <<>>)

\* a dataclass field as declared: name: annotation = field(metadata=...)
FieldDecl(name, annotation, metadata) ==
    [name |-> name, annotation |-> annotation, metadata |-> metadata]

BundleField(name, kind, annotation, metadata, raw_metadata, is_collection) ==
    [name |-> name, kind |-> kind, annotation |-> annotation,
     metadata |-> metadata, raw_metadata |-> raw_metadata,
     is_collection |-> is_collection]

\* the loop of _build_bundle_definition from field i on
RECURSIVE BuildFieldsFrom(_, _, _, _)

\* field i collected with its normalized metadata
BuildNormalized(decls, i, decorated, collected, kind, normalized_metadata) ==
    IF ~IsOk(normalized_metadata) THEN normalized_metadata
    ELSE BuildFieldsFrom(decls, i + 1, decorated,
             Append(collected,
                 BundleField(decls[i].name, kind, decls[i].annotation,
                     normalized_metadata.v, decls[i].metadata,
                     kind = "dir" /\ _dir_annotation_is_collection(decls[i].annotation))))

\* field i once classified
BuildClassified(decls, i, decorated, collected, kind) ==
    IF ~IsOk(kind) THEN kind
    ELSE IF kind.v \in {"dir", "file"}
    THEN BuildNormalized(decls, i, decorated, collected, kind.v,
             _normalize_metadata(decls[i].annotation, decls[i].metadata,
                                 kind.v = "file"))
    ELSE BuildFieldsFrom(decls, i + 1, decorated,
             Append(collected,
                 BundleField(decls[i].name, kind.v, decls[i].annotation,
                     <<>>, decls[i].metadata, FALSE)))

BuildFieldsFrom(decls, i, decorated, collected) ==
    IF i > Len(decls) THEN Ok(collected)
    ELSE BuildClassified(decls, i, decorated, collected,
                         _classify_field(decls[i].annotation, decorated))

\* Ok(the fields of the BundleDefinition), or the exception
_build_bundle_definition(decls, decorated) == BuildFieldsFrom(decls, 1, decorated, <<>>)

----------------------------------------------------------------------------
(* json: the encoder the writer calls *)

\* the escapes of a JSON string (ensure_ascii=False)
RECURSIVE escape(_)
escape(s) ==
    IF s = "" THEN ""
    ELSE (CASE Char(s, 1) = "\"" -> "\\\""
            [] Char(s, 1) = "\\" -> "\\\\"
            [] Char(s, 1) = "\n" -> "\\n"
            [] OTHER -> Char(s, 1)) \o escape(SubSeq(s, 2, Len(s)))

RECURSIVE spaces(_)
spaces(n) == IF n <= 0 THEN "" ELSE " " \o spaces(n - 1)

\* an encoding: the text yielded, and the exception that cut it short
Encoded(e, s) == [err |-> e, s |-> s]

\* a container closed after its items, unless the items raised
Closed(open, body, close, indent, level) ==
    IF body.err # NoError THEN Encoded(body.err, open \o body.s)
    ELSE Encoded(NoError,
                 open \o body.s
                     \o (IF indent < 0 THEN "" ELSE "\n" \o spaces(indent * level))
                     \o close)

\* json.JSONEncoder.iterencode: the text of the chunks yielded before the
\* encoder raised, or the whole encoding.  indent < 0 stands for indent=None.
RECURSIVE iterencode(_, _, _)
RECURSIVE iterencode_items(_, _, _, _, _)
iterencode(o, indent, level) ==
    CASE o.t = "none" -> Encoded(NoError, "null")
      [] o.t = "bool" -> Encoded(NoError, IF o.b THEN "true" ELSE "false")
      [] o.t = "int" -> Encoded(NoError, ToString(o.n))
      [] o.t = "float" -> Encoded(NoError, o.r)
      [] o.t = "str" -> Encoded(NoError, "\"" \o escape(o.s) \o "\"")
      [] o.t \in {"list", "tuple"} ->
            IF o.items = <<>> THEN Encoded(NoError, "[]")
            ELSE Closed("[", iterencode_items(o.items, 1, FALSE, indent, level + 1),
                        "]", indent, level)
      [] o.t = "dict" ->
            IF o.items = <<>> THEN Encoded(NoError, "{}")
            ELSE Closed("{", iterencode_items(o.items, 1, TRUE, indent, level + 1),
                        "}", indent, level)
      [] OTHER -> Encoded(Raise("TypeError", "Object is not JSON serializable"), "")

\* the separator and newline written before item i
ItemLead(i, indent, level) ==
    (IF i = 1 THEN "" ELSE ",")
        \o (IF indent < 0 THEN (IF i = 1 THEN "" ELSE " ")
            ELSE "\n" \o spaces(indent * level))

\* item i encoded as one, followed by the items after it unless it raised
ItemThenRest(lead, one, rest) ==
    IF one.err # NoError THEN Encoded(one.err, lead \o one.s)
    ELSE Encoded(rest.err, lead \o one.s \o rest.s)

\* the elements of a list, or the key: value pairs of a dict, from item i on
iterencode_items(items, i, keyed, indent, level) ==
    IF i > Len(items) THEN Encoded(NoError, "")
    ELSE ItemThenRest(
             ItemLead(i, indent, level)
                 \o (IF keyed THEN "\"" \o escape(items[i].k) \o "\": " ELSE ""),
             iterencode(IF keyed THEN items[i].v ELSE items[i], indent, level),
             iterencode_items(items, i + 1, keyed, indent, level))

\* json.dumps(obj, ensure_ascii=False)
dumps(obj) == iterencode(obj, -1, 0)

----------------------------------------------------------------------------
(* writer.py: names *)

\* getattr(instance, name): instances keep their attributes as ordered items
getattr(instance, name) == get(instance.vals, name)

_context_from(source) ==
    IF source = None THEN <<>>
    ELSE IF source.t = "dict" THEN source.items
    ELSE IF source.t = "inst" THEN source.vals
    ELSE <<>>

\* str.format(**mapping) on a template of text and {key} replacement fields
\* (no doubled braces, conversions or format specs): Ok(text), a KeyError
\* naming the key, an IndexError for a positional field, or a ValueError
RECURSIVE format(_, _)

\* the field replaced, followed by the formatted rest of the template
Formatted(before, replacement, rest) ==
    IF ~IsOk(rest) THEN rest ELSE Ok(before \o replacement \o rest.v)

\* the replacement field template[i..j] and what follows it
FormatField(template, mapping, i, j) ==
    IF contains(SubSeq(template, i + 1, j - 1), "{")
    THEN Fail(Raise("ValueError", "unexpected '{' in field name"))
    ELSE IF \A n \in (i + 1)..(j - 1) : Char(template, n) \in Digits
    THEN Fail(Raise("IndexError", "Replacement index out of range"))
    ELSE IF ~has_key(mapping, SubSeq(template, i + 1, j - 1))
    THEN Fail(RaiseKey("KeyError", SubSeq(template, i + 1, j - 1),
                       SubSeq(template, i + 1, j - 1)))
    ELSE Formatted(SubSeq(template, 1, i - 1),
                   str(get(mapping, SubSeq(template, i + 1, j - 1))),
                   format(SubSeq(template, j + 1, Len(template)), mapping))

\* the template whose first "{" is at i and first "}" at j (0: none)
FormatBraces(template, mapping, i, j) ==
    IF i = 0 /\ j = 0 THEN Ok(template)
    ELSE IF i = 0 \/ j < i
    THEN Fail(Raise("ValueError", "Single brace encountered in format string"))
    ELSE FormatField(template, mapping, i, j)

format(template, mapping) ==
    FormatBraces(template, mapping, find(template, "{"), find(template, "}"))

\* a function returning the constant s
Const(s) == [kind |-> "const", s |-> s]
\* a function returning the attribute a of its first argument, followed by
\* "-<index>" when it receives an index as second argument
AttrIndex(a) == [kind |-> "attr", s |-> a]

\* a function returning the arguments it received: the class name of an
\* instance, the text of any other value, joined by "-"; "none" without any
ArgsShown == [kind |-> "shown", s |-> ""]

Shown(args) ==
    IF args = <<>> THEN "none"
    ELSE join([i \in 1..Len(args) |->
                  IF args[i].t = "inst" THEN args[i].cls ELSE str(args[i])], "-")

\* func(*args) for the functions used as hints
Call(func, args) ==
    IF Len(args) > func.params /\ ~func.varargs
    THEN Fail(Raise("TypeError", "too many positional arguments"))
    ELSE IF func.body.kind = "shown" THEN Ok(Str(Shown(args)))
    ELSE IF func.body.kind = "const" THEN Ok(Str(func.body.s))
    ELSE IF args = <<>>
    THEN Fail(Raise("TypeError", "missing required positional argument"))
    ELSE IF ~has_key(_context_from(args[1]), func.body.s)
    THEN Fail(Raise("AttributeError", func.body.s))
    ELSE Ok(Str(str(get(_context_from(args[1]), func.body.s))
                \o (IF Len(args) >= 2 THEN "-" \o str(args[2]) ELSE "")))

\* the argument list _invoke_hint_callable builds
HintArgs(func, context, index) ==
    IF func.params = 0 /\ ~func.varargs THEN <<>>
    ELSE (IF func.params > 0 THEN <<context>> ELSE <<>>)
             \o (IF index # None /\ (func.varargs \/ func.params >= 2)
                 THEN <<index>> ELSE <<>>)

\* str(result) of the call, or its exception
Coerced(r) == IF IsOk(r) THEN Ok(str(r.v)) ELSE r

\* Ok(text), or the exception of the call
_invoke_hint_callable(func, context, index) ==
    Coerced(Call(func, HintArgs(func, context, index)))

\* the KeyError of a missing key let through as it is
ResolvedTemplateUnwrapped(text) ==
    IF IsOk(text) THEN Ok(Str(text.v)) ELSE text

\* the value returned for a formatted template, a KeyError becoming RenderError
ResolvedTemplate(text) ==
    IF IsOk(text) THEN Ok(Str(text.v))
    ELSE IF text.err.type = "KeyError"
    THEN Fail(RaiseKey("RenderError", "Missing template variable", text.err.key))
    ELSE text

ResolvedCallable(r) == IF IsOk(r) THEN Ok(Str(r.v)) ELSE r

\* the hint resolved against its context
ResolveIn(hint, context, index) ==
    IF hint.kind = "literal" THEN Ok(Str(str(hint.value)))
    ELSE IF hint.kind = "template"
    THEN ResolvedTemplate(
             format(hint.value.s,
                    IF index # None
                    THEN setdefault(_context_from(context), "index", index)
                    ELSE _context_from(context)))
    ELSE IF hint.kind = "callable"
    THEN ResolvedCallable(_invoke_hint_callable(hint.value, context, index))
    ELSE Fail(Raise("RenderError", "Unsupported hint kind"))

\* the hint resolved against the owner, whatever its source
_resolve_hint_of_owner(hint, owner, subject, index, field_name) ==
    IF hint = None THEN Ok(None) ELSE ResolveIn(hint, owner, index)

\* Ok(a str value or None), or the exception
_resolve_hint(hint, owner, subject, index, field_name) ==
    IF hint = None THEN Ok(None)
    ELSE ResolveIn(hint, IF hint.source = "self" THEN owner ELSE subject, index)

_default_name(field_name, index) ==
    IF index = None THEN field_name
    ELSE field_name \o "_" \o str(index)

\* the prefix placed below the name
_apply_prefix_swapped(prefix, name) == PathStr(Div(Path(name), prefix))

_apply_prefix(prefix, name) == PathStr(Div(Path(prefix), name))

\* the data of the first metadata record of the layer, or an empty mapping
_metadata_for_layer(metadata, layer_type) ==
    IF \E i \in 1..Len(metadata) : metadata[i].layer = layer_type
    THEN metadata[CHOOSE i \in 1..Len(metadata) :
                      /\ metadata[i].layer = layer_type
                      /\ \A k \in 1..(i - 1) : metadata[k].layer # layer_type].data
    ELSE <<>>

\* the name once the prefix hint is resolved
Prefixed(name, prefix_value) ==
    IF ~IsOk(prefix_value) THEN prefix_value
    ELSE IF truthy(prefix_value.v) THEN Ok(_apply_prefix(prefix_value.v.s, name))
    ELSE Ok(name)

\* the name, then the prefix hint of the layer
NameThenPrefix(field, owner, subject, index, prefix_hint, name) ==
    IF ~truthy(prefix_hint) THEN Ok(name)
    ELSE Prefixed(name, _resolve_hint(prefix_hint, owner, subject, index, field.name))

\* the default name numbered for the elements of a collection too
NameFromHintNumbered(field, owner, subject, index, metadata, resolved) ==
    IF ~IsOk(resolved) THEN resolved
    ELSE NameThenPrefix(field, owner, subject, index, get(metadata, "prefix"),
             IF resolved.v # None THEN resolved.v.s
             ELSE _default_name(field.name, index))

\* the name hint resolved, or the default name
NameFromHint(field, owner, subject, index, metadata, resolved) ==
    IF ~IsOk(resolved) THEN resolved
    ELSE NameThenPrefix(field, owner, subject, index, get(metadata, "prefix"),
             IF resolved.v # None THEN resolved.v.s
             ELSE IF field.kind = "dir" /\ field.is_collection /\ index # None
             THEN field.name
             ELSE _default_name(field.name, index))

NameInLayer(field, owner, subject, index, metadata) ==
    NameFromHint(field, owner, subject, index, metadata,
                 _resolve_hint(get(metadata, "name"), owner, subject, index, field.name))

\* Ok(the name, a text), or the exception
_compute_name(field, owner, subject, index) ==
    NameInLayer(field, owner, subject, index,
                _metadata_for_layer(field.metadata,
                                    IF field.kind = "dir" THEN "Dir" ELSE "File"))

\* the entries cut down to the first element of a collection
_iter_dir_entries_first(value) ==
    IF value = None THEN <<>>
    ELSE IF value.t \in {"list", "tuple"}
    THEN IF value.items = <<>> THEN <<>>
         ELSE <<[index |-> PyInt(0), child |-> value.items[1]]>>
    ELSE <<[index |-> None, child |-> value]>>

\* the elements of a collection enumerated from 1
_iter_dir_entries_from_one(value) ==
    IF value = None THEN <<>>
    ELSE IF value.t \in {"list", "tuple"}
    THEN [i \in 1..Len(value.items) |->
             [index |-> PyInt(i), child |-> value.items[i]]]
    ELSE IF value.t = "dict"
    THEN [i \in 1..Len(value.items) |->
             [index |-> PyInt(i), child |-> Str(value.items[i].k)]]
    ELSE <<[index |-> None, child |-> value]>>

\* [index, child] pairs; an iterable that is not text is enumerated from 0
_iter_dir_entries(value) ==
    IF value = None THEN <<>>
    ELSE IF value.t \in {"list", "tuple"}
    THEN [i \in 1..Len(value.items) |->
             [index |-> PyInt(i - 1), child |-> value.items[i]]]
    ELSE IF value.t = "dict"
    THEN [i \in 1..Len(value.items) |->
             [index |-> PyInt(i - 1), child |-> Str(value.items[i].k)]]
    ELSE <<[index |-> None, child |-> value]>>

----------------------------------------------------------------------------
(* writer.py: the traversal, as the sequence of filesystem operations it     *)
(* performs.  A sequence that raises ends with its raise operation.          *)

\* mkdir: Path.mkdir(parents=True, exist_ok=True); write: write_text or
\* write_bytes; open: open("w"); append: fp.write; raise: the exception leaves
MkdirOp(path, field) ==
    [op |-> "mkdir", path |-> path, data |-> "", field |-> field, err |-> NoError]
WriteOp(path, data, field) ==
    [op |-> "write", path |-> path, data |-> data, field |-> field, err |-> NoError]
OpenOp(path, field) ==
    [op |-> "open", path |-> path, data |-> "", field |-> field, err |-> NoError]
AppendOp(path, data, field) ==
    [op |-> "append", path |-> path, data |-> data, field |-> field, err |-> NoError]
RaiseOp(e, field) ==
    [op |-> "raise", path |-> <<>>, data |-> "", field |-> field, err |-> e]

Raised(ops) == ops # <<>> /\ ops[Len(ops)].op = "raise"

\* the loop over the rows of a jsonl payload, from row i on
RECURSIVE JsonlRowsFrom(_, _, _, _)

\* row i written as its encoding and a newline, unless json.dumps raised
JsonlRow(target, rows, i, field, row) ==
    IF row.err # NoError THEN <<RaiseOp(row.err, field)>>
    ELSE <<AppendOp(target, row.s, field), AppendOp(target, "\n", field)>>
             \o JsonlRowsFrom(target, rows, i + 1, field)

JsonlRowsFrom(target, rows, i, field) ==
    IF i > Len(rows) THEN <<>>
    ELSE JsonlRow(target, rows, i, field, dumps(rows[i]))

\* json.dump(payload, fp, indent=2): the chunks reach the file as they are
\* yielded, up to the chunk whose encoding raises
JsonDump(target, text, field) ==
    <<OpenOp(target, field)>>
        \o (IF text.s # "" THEN <<AppendOp(target, text.s, field)>> ELSE <<>>)
        \o (IF text.err # NoError THEN <<RaiseOp(text.err, field)>> ELSE <<>>)

\* the payload written with json payloads on one line
_write_payload_compact(target, payload, extension, field) ==
    IF payload.t = "bytes" THEN <<WriteOp(target, payload.s, field)>>
    ELSE IF payload.t = "str" THEN <<WriteOp(target, payload.s, field)>>
    ELSE IF extension = Str("json")
    THEN JsonDump(target, iterencode(payload, -1, 0), field)
    ELSE IF extension = Str("jsonl")
    THEN IF payload.t \notin {"list", "tuple", "dict"}
         THEN <<RaiseOp(Raise("RenderError", "jsonl payload must be an iterable of records"),
                        field)>>
         ELSE <<OpenOp(target, field)>>
                  \o JsonlRowsFrom(target,
                         IF payload.t = "dict"
                         THEN [i \in 1..Len(payload.items) |-> Str(payload.items[i].k)]
                         ELSE payload.items,
                         1, field)
    ELSE IF payload.t = "stream" THEN <<WriteOp(target, payload.s, field)>>
    ELSE <<RaiseOp(Raise("RenderError", "Unsupported payload type for field output"),
                   field)>>

_write_payload(target, payload, extension, field) ==
    IF payload.t = "bytes" THEN <<WriteOp(target, payload.s, field)>>
    ELSE IF payload.t = "str" THEN <<WriteOp(target, payload.s, field)>>
    ELSE IF extension = Str("json")
    THEN JsonDump(target, iterencode(payload, 2, 0), field)
    ELSE IF extension = Str("jsonl")
    THEN IF payload.t \notin {"list", "tuple", "dict"}
         THEN <<RaiseOp(Raise("RenderError", "jsonl payload must be an iterable of records"),
                        field)>>
         ELSE <<OpenOp(target, field)>>
                  \o JsonlRowsFrom(target,
                         IF payload.t = "dict"
                         THEN [i \in 1..Len(payload.items) |-> Str(payload.items[i].k)]
                         ELSE payload.items,
                         1, field)
    ELSE IF payload.t = "stream" THEN <<WriteOp(target, payload.s, field)>>
    ELSE <<RaiseOp(Raise("RenderError", "Unsupported payload type for field output"),
                   field)>>

\* the parent directory made, then the payload written
FileAt(field, value, extension, target) ==
    <<MkdirOp(Parent(target), field.name)>>
        \o _write_payload(target, value, extension, field.name)

\* the file of the field once its name is computed
FileNamed(field, value, base_path, extension, name) ==
    IF ~IsOk(name) THEN <<RaiseOp(name.err, field.name)>>
    ELSE IF name.v = ""
    THEN <<RaiseOp(Raise("RenderError", "File field produced an empty name"),
                   field.name)>>
    ELSE FileAt(field, value, extension,
                Div(base_path,
                    IF truthy(extension) THEN name.v \o "." \o str(extension)
                    ELSE name.v))

_render_file_field(field, value, owner, base_path) ==
    FileNamed(field, value, base_path,
              get(_metadata_for_layer(field.metadata, "File"), "extension"),
              _compute_name(field, owner, value, None))

RECURSIVE _render_fields(_, _, _)
RECURSIVE RenderFieldsFrom(_, _, _, _)
RECURSIVE RenderEntriesFrom(_, _, _, _, _)

\* the directory of entry i made, its content left until the entries after
\* it are rendered
EntryBeforeRest(field, entries, i, owner, base_path, inner) ==
    IF Raised(inner) THEN inner
    ELSE <<Head(inner)>>
             \o RenderEntriesFrom(field, entries, i + 1, owner, base_path)
             \o Tail(inner)

\* entry i rendered as inner, then the entries after it
EntryThenRest(field, entries, i, owner, base_path, inner) ==
    IF Raised(inner) THEN inner
    ELSE inner \o RenderEntriesFrom(field, entries, i + 1, owner, base_path)

\* entry i: its directory made, then the fields of the child rendered in it
EntryAt(field, entries, i, owner, base_path, dir_path) ==
    IF entries[i].child.t # "inst" \/ entries[i].child.cls \notin DOMAIN classes
    THEN <<MkdirOp(dir_path, field.name),
           RaiseOp(Raise("RenderError", "Directory field expected bundle data"),
                   field.name)>>
    ELSE EntryThenRest(field, entries, i, owner, base_path,
             <<MkdirOp(dir_path, field.name)>>
                 \o _render_fields(classes[entries[i].child.cls].fields,
                                   entries[i].child, dir_path))

\* entry i once its name is computed
EntryNamed(field, entries, i, owner, base_path, name) ==
    IF ~IsOk(name) THEN <<RaiseOp(name.err, field.name)>>
    ELSE EntryAt(field, entries, i, owner, base_path, Div(base_path, name.v))

\* the loop of _render_dir_field over the entries, from entry i on
RenderEntriesFrom(field, entries, i, owner, base_path) ==
    IF i > Len(entries) THEN <<>>
    ELSE EntryNamed(field, entries, i, owner, base_path,
             _compute_name(field, owner, entries[i].child, entries[i].index))

_render_dir_field(field, value, owner, base_path) ==
    RenderEntriesFrom(field, _iter_dir_entries(value), 1, owner, base_path)

\* field i rendered after the fields that follow it
FieldAfterRest(fields, i, instance, base_path, ops) ==
    IF Raised(ops) THEN ops
    ELSE RenderFieldsFrom(fields, i + 1, instance, base_path) \o ops

\* field i rendered as ops, then the fields after it
FieldThenRest(fields, i, instance, base_path, ops) ==
    IF Raised(ops) THEN ops
    ELSE ops \o RenderFieldsFrom(fields, i + 1, instance, base_path)

\* field i rendered whatever its value, null too
FieldOfValueUnskipped(fields, i, instance, base_path, value) ==
    IF fields[i].kind = "dir"
    THEN FieldThenRest(fields, i, instance, base_path,
                       _render_dir_field(fields[i], value, instance, base_path))
    ELSE IF fields[i].kind = "file"
    THEN FieldThenRest(fields, i, instance, base_path,
                       _render_file_field(fields[i], value, instance, base_path))
    ELSE RenderFieldsFrom(fields, i + 1, instance, base_path)

\* field i once its value is read off the instance
FieldOfValue(fields, i, instance, base_path, value) ==
    IF value = None THEN RenderFieldsFrom(fields, i + 1, instance, base_path)
    ELSE IF fields[i].kind = "dir"
    THEN FieldThenRest(fields, i, instance, base_path,
                       _render_dir_field(fields[i], value, instance, base_path))
    ELSE IF fields[i].kind = "file"
    THEN FieldThenRest(fields, i, instance, base_path,
                       _render_file_field(fields[i], value, instance, base_path))
    ELSE RenderFieldsFrom(fields, i + 1, instance, base_path)

\* the loop of _render_fields from field i on
RenderFieldsFrom(fields, i, instance, base_path) ==
    IF i > Len(fields) THEN <<>>
    ELSE FieldOfValue(fields, i, instance, base_path,
                      getattr(instance, fields[i].name))

_render_fields(definition, instance, base_path) ==
    RenderFieldsFrom(definition, 1, instance, base_path)

\* the guard without its test of a non-empty destination
DestinationGuardUnchecked(fs, path, overwrite) ==
    IF exists(fs, path) THEN <<>> ELSE <<MkdirOp(path, "")>>

\* lines 29-34 of write_bundle on the filesystem fs
DestinationGuard(fs, path, overwrite) ==
    IF exists(fs, path)
    THEN IF ~overwrite /\ is_file(fs, path)
         THEN <<RaiseOp(Raise("NotADirectoryError", PathStr(path)), "")>>
         ELSE IF ~overwrite /\ iterdir(fs, path) # {}
         THEN <<RaiseOp(Raise("RenderError", "Destination already exists and is not empty"),
                        "")>>
         ELSE <<>>
    ELSE <<MkdirOp(path, "")>>

\* write_bundle after the destination guard
Guarded(bundle, path, guard) ==
    IF Raised(guard) THEN guard
    ELSE IF bundle.t # "inst" \/ bundle.cls \notin DOMAIN classes
    THEN guard \o <<RaiseOp(Raise("RenderError",
                        "Object is not a bundle-decorated dataclass instance"), "")>>
    ELSE guard \o _render_fields(classes[bundle.cls].fields, bundle, path)

\* the operations of write_bundle(bundle, output_path, overwrite=...)
write_bundle(fs, bundle, output_path, overwrite) ==
    Guarded(bundle, Path(output_path),
            DestinationGuard(fs, Path(output_path), overwrite))

\* one filesystem operation applied: [fs, err]
Apply(fs, o) ==
    CASE o.op = "mkdir" -> mkdir(fs, o.path)
      [] o.op = "write" -> write_file(fs, Resolved(o.path), o.data)
      [] o.op = "open" -> write_file(fs, Resolved(o.path), "")
      [] o.op = "append" ->
            write_file(fs, Resolved(o.path), fs.files[Resolved(o.path)] \o o.data)
      [] OTHER -> [fs |-> fs, err |-> o.err]

----------------------------------------------------------------------------
(* json: the decoder the reader calls *)

\* s without its first k characters; whether s starts with the text p
Drop(s, k) == SubSeq(s, k + 1, Len(s))
StartsWith(s, p) == Len(s) >= Len(p) /\ SubSeq(s, 1, Len(p)) = p

RECURSIVE SkipWs(_)
SkipWs(s) ==
    IF s # "" /\ Char(s, 1) \in {" ", "\n", "\t", "\r"} THEN SkipWs(Drop(s, 1)) ELSE s

\* a decoded value and the text after it, or the JSONDecodeError
Parsed(v, rest) == [err |-> NoError, v |-> v, rest |-> rest]
ParseFail(what) == [err |-> Raise("JSONDecodeError", what), v |-> None, rest |-> ""]

DigitValue ==
    [c \in Digits |->
        CASE c = "0" -> 0 [] c = "1" -> 1 [] c = "2" -> 2 [] c = "3" -> 3
          [] c = "4" -> 4 [] c = "5" -> 5 [] c = "6" -> 6 [] c = "7" -> 7
          [] c = "8" -> 8 [] c = "9" -> 9]

\* the digits after the point: a float whose repr drops the trailing zeros
RECURSIVE ParseFraction(_, _, _)
ParseFraction(s, whole, frac) ==
    IF s # "" /\ Char(s, 1) \in Digits
    THEN ParseFraction(Drop(s, 1), whole, frac \o Char(s, 1))
    ELSE Parsed(PyFloat(whole \o "."
                            \o (IF rstrip(frac, "0") = "" THEN "0"
                                ELSE rstrip(frac, "0"))), s)

\* the digits of a number, n being the value of the digits read so far
RECURSIVE ParseDigits(_, _, _)
ParseDigits(s, n, sign) ==
    IF s # "" /\ Char(s, 1) \in Digits
    THEN ParseDigits(Drop(s, 1), 10 * n + DigitValue[Char(s, 1)], sign)
    ELSE IF Len(s) >= 2 /\ Char(s, 1) = "." /\ Char(s, 2) \in Digits
    THEN ParseFraction(Drop(s, 1), (IF sign < 0 THEN "-" ELSE "") \o ToString(n), "")
    ELSE Parsed(PyInt(sign * n), s)

\* an integer or decimal literal (exponents are not read)
ParseNumber(s) ==
    IF StartsWith(s, "-")
    THEN IF Len(s) >= 2 /\ Char(s, 2) \in Digits
         THEN ParseDigits(Drop(s, 1), 0, -1)
         ELSE ParseFail("Expecting value")
    ELSE ParseDigits(s, 0, 1)

\* the characters of a string literal after its opening quote
RECURSIVE ParseString(_, _)
ParseString(s, acc) ==
    IF s = "" THEN ParseFail("Unterminated string")
    ELSE IF Char(s, 1) = "\"" THEN Parsed(Str(acc), Drop(s, 1))
    ELSE IF Char(s, 1) = "\n" THEN ParseFail("Invalid control character")
    ELSE IF Char(s, 1) # "\\" THEN ParseString(Drop(s, 1), acc \o Char(s, 1))
    ELSE IF StartsWith(s, "\\\"") THEN ParseString(Drop(s, 2), acc \o "\"")
    ELSE IF StartsWith(s, "\\\\") THEN ParseString(Drop(s, 2), acc \o "\\")
    ELSE IF StartsWith(s, "\\n") THEN ParseString(Drop(s, 2), acc \o "\n")
    ELSE ParseFail("Invalid escape")

RECURSIVE ParseValue(_)
RECURSIVE ParseItems(_, _)
RECURSIVE ParseMembers(_, _)

\* after an element of an array: a comma and the next element, or the end
AfterItem(acc, s) ==
    IF StartsWith(s, ",") THEN ParseItems(Drop(s, 1), acc)
    ELSE IF StartsWith(s, "]") THEN Parsed(List(acc), Drop(s, 1))
    ELSE ParseFail("Expecting ',' delimiter")

ItemParsed(acc, r) ==
    IF r.err # NoError THEN r ELSE AfterItem(Append(acc, r.v), SkipWs(r.rest))

ParseItems(s, acc) == ItemParsed(acc, ParseValue(s))

\* after a member of an object: a comma and the next member, or the end
AfterMember(acc, s) ==
    IF StartsWith(s, ",") THEN ParseMembers(SkipWs(Drop(s, 1)), acc)
    ELSE IF StartsWith(s, "}") THEN Parsed(Dict(acc), Drop(s, 1))
    ELSE ParseFail("Expecting ',' delimiter")

MemberParsed(acc, key, r) ==
    IF r.err # NoError THEN r
    ELSE AfterMember(setitem(acc, key, r.v), SkipWs(r.rest))

\* the colon and the value after the key of a member
KeyThenColon(acc, key, s) ==
    IF StartsWith(s, ":") THEN MemberParsed(acc, key, ParseValue(Drop(s, 1)))
    ELSE ParseFail("Expecting ':' delimiter")

KeyParsed(acc, r) ==
    IF r.err # NoError THEN r ELSE KeyThenColon(acc, r.v.s, SkipWs(r.rest))

ParseMembers(s, acc) ==
    IF StartsWith(s, "\"") THEN KeyParsed(acc, ParseString(Drop(s, 1), ""))
    ELSE ParseFail("Expecting property name enclosed in double quotes")

\* the contents of an array or object after its opening bracket
ParseArray(s) ==
    IF StartsWith(s, "]") THEN Parsed(List(<<>>), Drop(s, 1)) ELSE ParseItems(s, <<>>)

ParseObject(s) ==
    IF StartsWith(s, "}") THEN Parsed(Dict(<<>>), Drop(s, 1)) ELSE ParseMembers(s, <<>>)

\* a value at the start of s, which holds no leading whitespace
ParseValueAt(s) ==
    IF StartsWith(s, "null") THEN Parsed(None, Drop(s, 4))
    ELSE IF StartsWith(s, "true") THEN Parsed(Bool(TRUE), Drop(s, 4))
    ELSE IF StartsWith(s, "false") THEN Parsed(Bool(FALSE), Drop(s, 5))
    ELSE IF StartsWith(s, "\"") THEN ParseString(Drop(s, 1), "")
    ELSE IF StartsWith(s, "[") THEN ParseArray(SkipWs(Drop(s, 1)))
    ELSE IF StartsWith(s, "{") THEN ParseObject(SkipWs(Drop(s, 1)))
    ELSE IF s # "" /\ Char(s, 1) \in Digits \cup {"-"} THEN ParseNumber(s)
    ELSE ParseFail("Expecting value")

ParseValue(s) == ParseValueAt(SkipWs(s))

\* the whole text must be one value
WholeText(r) ==
    IF r.err # NoError THEN Fail(r.err)
    ELSE IF SkipWs(r.rest) # "" THEN Fail(Raise("JSONDecodeError", "Extra data"))
    ELSE Ok(r.v)

\* json.loads(s): Ok(the value), or the JSONDecodeError
loads(s) == WholeText(ParseValue(s))

----------------------------------------------------------------------------
(* reader.py: names *)

SUPPORTED_EXTENSIONS == {".txt", ".json", ".jsonl"}

LowerToUpper ==
    [a |-> "A", b |-> "B", c |-> "C", d |-> "D", e |-> "E", f |-> "F", g |-> "G",
     h |-> "H", i |-> "I", j |-> "J", k |-> "K", l |-> "L", m |-> "M", n |-> "N",
     o |-> "O", p |-> "P", q |-> "Q", r |-> "R", s |-> "S", t |-> "T", u |-> "U",
     v |-> "V", w |-> "W", x |-> "X", y |-> "Y", z |-> "Z"]

\* str.capitalize() of a non-empty token
capitalize(token) ==
    (IF Char(token, 1) \in LowerLetters THEN LowerToUpper[Char(token, 1)]
     ELSE Char(token, 1)) \o lower(Drop(token, 1))

\* the characters of names in code point order, and the order of texts it gives
CodePoints ==
    " !#$%&()*+,-./0123456789:;<=>?@ABCDEFGHIJKLMNOPQRSTUVWXYZ[]^_abcdefghijklmnopqrstuvwxyz{|}~"

RECURSIVE StrLess(_, _)
StrLess(a, b) ==
    IF a = "" THEN b # ""
    ELSE IF b = "" THEN FALSE
    ELSE IF Char(a, 1) = Char(b, 1) THEN StrLess(Drop(a, 1), Drop(b, 1))
    ELSE find(CodePoints, Char(a, 1)) < find(CodePoints, Char(b, 1))

\* the non-empty tokens of re.split(r"[^0-9a-zA-Z]+", value)
RECURSIVE TokensFrom(_, _, _)
TokensFrom(s, current, out) ==
    IF s = "" THEN (IF current = "" THEN out ELSE Append(out, current))
    ELSE IF IsAlnum(Char(s, 1))
    THEN TokensFrom(Drop(s, 1), current \o Char(s, 1), out)
    ELSE TokensFrom(Drop(s, 1), "", IF current = "" THEN out ELSE Append(out, current))

AlnumTokens(value) == TokensFrom(value, "", <<>>)

RECURSIVE JoinCapitalized(_)
JoinCapitalized(tokens) ==
    IF tokens = <<>> THEN ""
    ELSE capitalize(Head(tokens)) \o JoinCapitalized(Tail(tokens))

\* a name that starts with a digit gets the letter N in front
NBeforeDigit(combined) ==
    IF Char(combined, 1) \in Digits THEN "N" \o combined ELSE combined

CamelOf(filtered) ==
    IF filtered = <<>> THEN "Node" ELSE NBeforeDigit(JoinCapitalized(filtered))

_camelcase(value) == CamelOf(AlnumTokens(value))

SanitizedOf(filtered) ==
    IF filtered = "" THEN "Node" ELSE NBeforeDigit(filtered)

_sanitize_class_name(value) ==
    IF value = "" THEN "Node" ELSE SanitizedOf(join(AlnumTokens(value), ""))

\* keyword.kwlist
PythonKeywords ==
    {"False", "None", "True", "and", "as", "assert", "async", "await", "break",
     "class", "continue", "def", "del", "elif", "else", "except", "finally",
     "for", "from", "global", "if", "import", "in", "is", "lambda", "nonlocal",
     "not", "or", "pass", "raise", "return", "try", "while", "with", "yield"}

\* re.sub(r"([a-z0-9])([A-Z])", r"\1_\2", value)
RECURSIVE CamelBreaks(_)
CamelBreaks(s) ==
    IF Len(s) < 2 THEN s
    ELSE IF Char(s, 1) \in LowerLetters \cup Digits /\ Char(s, 2) \in UpperLetters
    THEN Char(s, 1) \o "_" \o CamelBreaks(Drop(s, 1))
    ELSE Char(s, 1) \o CamelBreaks(Drop(s, 1))

SnakeKeyword(lowered) ==
    IF lowered \in PythonKeywords THEN lowered \o "_" ELSE lowered

SnakeDigit(lowered) ==
    SnakeKeyword(IF Char(lowered, 1) \in Digits THEN "n_" \o lowered ELSE lowered)

SnakeOf(lowered) == SnakeDigit(IF lowered = "" THEN "node" ELSE lowered)

_snake_case(value) == SnakeOf(lower(CamelBreaks(join(AlnumTokens(value), "_"))))

\* the loop of _unique_field_name: base, base_2, base_3, ...
RECURSIVE UniqueFieldFrom(_, _, _)
UniqueFieldFrom(existing, base, counter) ==
    IF (IF counter = 1 THEN base ELSE base \o "_" \o ToString(counter)) \in existing
    THEN UniqueFieldFrom(existing, base, counter + 1)
    ELSE IF counter = 1 THEN base ELSE base \o "_" \o ToString(counter)

\* the name returned; the caller's set gains it
_unique_field_name(existing, candidate) == UniqueFieldFrom(existing, candidate, 1)

\* defaultdict(int) lookup
CountOf(name_counts, name) ==
    IF name \in DOMAIN name_counts THEN name_counts[name] ELSE 0

\* the class name, and the counts after the call
UniqueClassNamed(name_counts, sanitized) ==
    [name |-> IF CountOf(name_counts, sanitized) = 0 THEN sanitized
              ELSE sanitized \o ToString(CountOf(name_counts, sanitized) + 1),
     name_counts |-> (sanitized :> (CountOf(name_counts, sanitized) + 1)) @@ name_counts]

_unique_class_name(name_counts, base, trust_input) ==
    UniqueClassNamed(name_counts,
                     IF trust_input THEN _sanitize_class_name(base) ELSE _camelcase(base))

----------------------------------------------------------------------------
(* reader.py: schemas *)

\* the item x placed among items already sorted by key
RECURSIVE InsertByKey(_, _)
InsertByKey(items, x) ==
    IF items = <<>> THEN <<x>>
    ELSE IF StrLess(x.k, Head(items).k) THEN <<x>> \o items
    ELSE <<Head(items)>> \o InsertByKey(Tail(items), x)

\* sorted(items) of a dict's items: the keys are distinct strings
RECURSIVE SortedByKey(_)
SortedByKey(items) ==
    IF items = <<>> THEN <<>>
    ELSE InsertByKey(SortedByKey(Tail(items)), Head(items))

\* the items of a dict sorted by key, at every depth: what sort_keys=True encodes
RECURSIVE SortKeys(_)
RECURSIVE SortKeysEach(_, _)
SortKeysEach(items, keyed) ==
    IF items = <<>> THEN <<>>
    ELSE <<IF keyed THEN KV(Head(items).k, SortKeys(Head(items).v))
           ELSE SortKeys(Head(items))>>
             \o SortKeysEach(Tail(items), keyed)

SortKeys(v) ==
    IF v.t = "dict" THEN Dict(SortedByKey(SortKeysEach(v.items, TRUE)))
    ELSE IF v.t = "list" THEN List(SortKeysEach(v.items, FALSE))
    ELSE v

\* the loop of _merge_schemas: the schemas whose signature is new, in order
RECURSIVE UniqueSchemasFrom(_, _, _, _)
UniqueSchemasFrom(schemas, i, signatures, unique) ==
    IF i > Len(schemas) THEN unique
    ELSE IF dumps(SortKeys(schemas[i])).s \in signatures
    THEN UniqueSchemasFrom(schemas, i + 1, signatures, unique)
    ELSE UniqueSchemasFrom(schemas, i + 1,
                           signatures \cup {dumps(SortKeys(schemas[i])).s},
                           Append(unique, schemas[i]))

\* the merge that wraps a lone schema in anyOf as well
MergedAnyOf(unique) ==
    IF unique = <<>> THEN Dict(<<>>)
    ELSE Dict(<<KV("anyOf", List(unique))>>)

MergedOf(unique) ==
    IF unique = <<>> THEN Dict(<<>>)
    ELSE IF Len(unique) = 1 THEN unique[1]
    ELSE Dict(<<KV("anyOf", List(unique))>>)

_merge_schemas(schemas) == MergedOf(UniqueSchemasFrom(schemas, 1, {}, <<>>))

\* an object schema over the properties, a dict of schemas
ObjectSchema(properties) ==
    IF properties = <<>> THEN Dict(<<KV("type", Str("object"))>>)
    ELSE Dict(<<KV("type", Str("object")),
                KV("properties", Dict(properties)),
                KV("required",
                   List([i \in 1..Len(properties) |-> Str(properties[i].k)]))>>)

RECURSIVE _infer_json_schema(_)

\* [_infer_json_schema(item) for item in items]
RECURSIVE SchemasOf(_)
SchemasOf(items) ==
    IF items = <<>> THEN <<>>
    ELSE <<_infer_json_schema(Head(items))>> \o SchemasOf(Tail(items))

\* {key: _infer_json_schema(item) for key, item in items}
RECURSIVE PropertySchemas(_)
PropertySchemas(items) ==
    IF items = <<>> THEN <<>>
    ELSE <<KV(Head(items).k, _infer_json_schema(Head(items).v))>>
             \o PropertySchemas(Tail(items))

_infer_json_schema(value) ==
    CASE value.t = "none" -> Dict(<<KV("type", Str("null"))>>)
      [] value.t = "bool" -> Dict(<<KV("type", Str("boolean"))>>)
      [] value.t = "int" -> Dict(<<KV("type", Str("integer"))>>)
      [] value.t = "float" -> Dict(<<KV("type", Str("number"))>>)
      [] value.t = "str" -> Dict(<<KV("type", Str("string"))>>)
      [] value.t = "list" ->
            IF value.items = <<>> THEN Dict(<<KV("type", Str("array"))>>)
            ELSE Dict(<<KV("type", Str("array")),
                        KV("items",
                           _merge_schemas(SchemasOf(value.items)))>>)
      [] value.t = "dict" ->
            ObjectSchema(PropertySchemas(SortedByKey(value.items)))
      [] OTHER -> Dict(<<KV("type", Str("string"))>>)

_annotation_for_json_value(value) ==
    CASE value.t = "dict" -> G("dict", <<T("str"), T("Any")>>)
      [] value.t = "list" -> G("list", <<T("Any")>>)
      [] value.t = "bool" -> T("bool")
      [] value.t = "int" -> T("int")
      [] value.t = "float" -> T("float")
      [] value.t = "none" -> T("Any")
      [] OTHER -> T("str")

_annotation_for_jsonl(items) ==
    IF items = <<>> THEN G("dict", <<T("str"), T("Any")>>)
    ELSE _annotation_for_json_value(items[1])

----------------------------------------------------------------------------
(* reader.py: the builder.  Its state st holds _class_cache,                 *)
(* _instance_cache, _schema_defs and _name_counts, and classes: the classes   *)
(* made so far, each under an identity of its own.                            *)

\* PurePath.name
Name(p) == p[Len(p)]

\* text read in text mode: universal newlines turn "\r\n" and "\r" into "\n"
RECURSIVE TranslateNewlines(_)
TranslateNewlines(s) ==
    IF s = "" THEN ""
    ELSE IF StartsWith(s, "\r\n") THEN "\n" \o TranslateNewlines(Drop(s, 2))
    ELSE IF StartsWith(s, "\r") THEN "\n" \o TranslateNewlines(Drop(s, 1))
    ELSE Char(s, 1) \o TranslateNewlines(Drop(s, 1))

\* Path.read_text(encoding="utf-8")
read_text(fs, path) == TranslateNewlines(fs.files[path])

\* line.rstrip("\n\r")
RECURSIVE RStripNewlines(_)
RStripNewlines(s) ==
    IF s # "" /\ Char(s, Len(s)) \in {"\n", "\r"}
    THEN RStripNewlines(SubSeq(s, 1, Len(s) - 1)) ELSE s

\* what _build_file returns, or its exception
FileBuilt(annotation, value, schema) ==
    [err |-> NoError, annotation |-> annotation, value |-> value, schema |-> schema]

\* a .json file once decoded
JsonFile(payload) ==
    IF ~IsOk(payload) THEN [err |-> payload.err]
    ELSE FileBuilt(G("File", <<_annotation_for_json_value(payload.v)>>),
                   payload.v, _infer_json_schema(payload.v))

\* the loop over the lines of a .jsonl file, from line i on
RECURSIVE JsonlLinesFrom(_, _, _)

JsonlLine(lines, i, payload_list, decoded) ==
    IF ~IsOk(decoded) THEN decoded
    ELSE JsonlLinesFrom(lines, i + 1, Append(payload_list, decoded.v))

JsonlLinesFrom(lines, i, payload_list) ==
    IF i > Len(lines) THEN Ok(payload_list)
    ELSE IF RStripNewlines(lines[i]) = ""
    THEN JsonlLinesFrom(lines, i + 1, payload_list)
    ELSE JsonlLine(lines, i, payload_list, loads(RStripNewlines(lines[i])))

\* a .jsonl file once its lines are decoded
JsonlFile(payload_list) ==
    IF ~IsOk(payload_list) THEN [err |-> payload_list.err]
    ELSE FileBuilt(G("File", <<G("list", <<_annotation_for_jsonl(payload_list.v)>>)>>),
                   List(payload_list.v),
                   Dict(<<KV("type", Str("array")),
                          KV("items",
                             _merge_schemas(SchemasOf(payload_list.v)))>>))

_build_file(fs, path) ==
    IF lower(suffix(Name(path))) = ".txt"
    THEN FileBuilt(G("File", <<T("str")>>), Str(read_text(fs, path)),
                   Dict(<<KV("type", Str("string"))>>))
    ELSE IF lower(suffix(Name(path))) = ".json"
    THEN JsonFile(loads(read_text(fs, path)))
    ELSE IF lower(suffix(Name(path))) = ".jsonl"
    THEN JsonlFile(JsonlLinesFrom(split(read_text(fs, path), "\n"), 1, <<>>))
    ELSE [err |-> Raise("ValueError", "Unsupported file extension")]

\* target.relative_to(root_path).as_posix(), "." for the root itself
_relative(root_path, target) ==
    IF Len(target) = Len(root_path) THEN "."
    ELSE join(SubSeq(target, Len(root_path) + 1, Len(target)), "/")

XPyarty(kind, path, name) ==
    Dict(<<KV("kind", Str(kind)), KV("path", Str(path)), KV("name", Str(name))>>)

_directory_schema(class_name, properties, required, root_path, path) ==
    Dict(<<KV("title", Str(class_name)),
           KV("type", Str("object")),
           KV("properties", Dict(properties)),
           KV("additionalProperties", Bool(FALSE)),
           KV("x-pyarty", XPyarty("dir", _relative(root_path, path),
                                  IF path = <<>> THEN "root" ELSE Name(path)))>>
         \o (IF required # <<>>
             THEN <<KV("required", List([i \in 1..Len(required) |-> Str(required[i])]))>>
             ELSE <<>>))

\* the identity of the class made for the directory at path
ClassOf(class_name, root_path, path) == class_name \o "@" \o _relative(root_path, path)

\* the state of the loop of _build_dir over the entries of one directory
Collected(fields, init_kwargs, schema_properties, required_fields, used_field_names, st) ==
    [fields |-> fields, init_kwargs |-> init_kwargs,
     schema_properties |-> schema_properties, required_fields |-> required_fields,
     used_field_names |-> used_field_names, st |-> st]

\* what _build_dir returns, with the state of the builder after it
DirBuilt(cls, instance, st) ==
    [err |-> NoError, cls |-> cls, instance |-> instance, st |-> st]

\* the key (is_file, name) of x sorts before that of y
EntryBefore(fs, x, y) ==
    \/ is_dir(fs, x) /\ is_file(fs, y)
    \/ is_file(fs, x) = is_file(fs, y) /\ StrLess(Name(x), Name(y))

FirstEntry(fs, S) == CHOOSE x \in S : \A y \in S \ {x} : EntryBefore(fs, x, y)

RECURSIVE SortedFrom(_, _)
SortedFrom(fs, S) ==
    IF S = {} THEN <<>>
    ELSE <<FirstEntry(fs, S)>> \o SortedFrom(fs, S \ {FirstEntry(fs, S)})

\* sorted(path.iterdir(), key=lambda p: (p.is_file(), p.name))
SortedEntries(fs, path) == SortedFrom(fs, iterdir(fs, path))

RECURSIVE _build_dir(_, _, _, _, _)
RECURSIVE BuildEntriesFrom(_, _, _, _, _)

\* the field of a sub-directory entry, named field_name
DirField(fs, root_path, entries, i, c, child, field_name) ==
    BuildEntriesFrom(fs, root_path, entries, i + 1,
        Collected(
            Append(c.fields,
                   FieldDecl(field_name, G("Dir", <<T(child.cls)>>),
                             twig(Str(Name(entries[i])), None, None))),
            Append(c.init_kwargs, KV(field_name, child.instance)),
            setitem(c.schema_properties, field_name,
                Dict(<<KV("$ref", Str("#/$defs/" \o child.st.classes[child.cls].name)),
                       KV("description", Str("Directory '" \o Name(entries[i]) \o "'")),
                       KV("x-pyarty", XPyarty("dir", _relative(root_path, entries[i]),
                                              Name(entries[i])))>>)),
            Append(c.required_fields, field_name),
            c.used_field_names \cup {field_name},
            child.st))

\* a sub-directory entry once built
DirEntry(fs, root_path, entries, i, c, child) ==
    IF child.err # NoError THEN [err |-> child.err]
    ELSE DirField(fs, root_path, entries, i, c, child,
                  _unique_field_name(c.used_field_names, _snake_case(Name(entries[i]))))

\* the field of a file entry, named field_name
FileField(fs, root_path, entries, i, c, built, field_name) ==
    BuildEntriesFrom(fs, root_path, entries, i + 1,
        Collected(
            Append(c.fields,
                   FieldDecl(field_name, built.annotation,
                             twig(Str(stem(Name(entries[i]))),
                                  Str(lstrip(lower(suffix(Name(entries[i]))), ".")),
                                  None))),
            Append(c.init_kwargs, KV(field_name, built.value)),
            setitem(c.schema_properties, field_name,
                Dict(setitem(built.schema.items, "x-pyarty",
                    Dict(<<KV("kind", Str("file")),
                           KV("path", Str(_relative(root_path, entries[i]))),
                           KV("name", Str(Name(entries[i]))),
                           KV("extension",
                              Str(lstrip(lower(suffix(Name(entries[i]))), ".")))>>)))),
            Append(c.required_fields, field_name),
            c.used_field_names \cup {field_name},
            c.st))

\* a file entry once read
FileEntry(fs, root_path, entries, i, c, built) ==
    IF built.err # NoError THEN [err |-> built.err]
    ELSE FileField(fs, root_path, entries, i, c, built,
                   _unique_field_name(c.used_field_names,
                                      _snake_case(stem(Name(entries[i])))))

\* the loop passing over the files whose extension is not supported
BuildEntriesSkipping(fs, root_path, entries, i, c) ==
    IF i > Len(entries) THEN [err |-> NoError, c |-> c]
    ELSE IF is_dir(fs, entries[i])
    THEN DirEntry(fs, root_path, entries, i, c,
                  _build_dir(fs, root_path, entries[i], None, c.st))
    ELSE IF lower(suffix(Name(entries[i]))) \notin SUPPORTED_EXTENSIONS
    THEN BuildEntriesFrom(fs, root_path, entries, i + 1, c)
    ELSE FileEntry(fs, root_path, entries, i, c, _build_file(fs, entries[i]))

\* the loop of _build_dir from entry i on
BuildEntriesFrom(fs, root_path, entries, i, c) ==
    IF i > Len(entries) THEN [err |-> NoError, c |-> c]
    ELSE IF is_dir(fs, entries[i])
    THEN DirEntry(fs, root_path, entries, i, c,
                  _build_dir(fs, root_path, entries[i], None, c.st))
    ELSE IF lower(suffix(Name(entries[i]))) \notin SUPPORTED_EXTENSIONS
    THEN [err |-> Raise("ValueError", "Unsupported file extension")]
    ELSE FileEntry(fs, root_path, entries, i, c, _build_file(fs, entries[i]))

\* make_dataclass and bundle applied: the class, its instance and its schema
DirDefined(root_path, path, class_name, c, definition) ==
    IF ~IsOk(definition) THEN [err |-> definition.err]
    ELSE DirBuilt(ClassOf(class_name, root_path, path),
                  Inst(ClassOf(class_name, root_path, path), c.init_kwargs),
                  [class_cache |-> (path :> ClassOf(class_name, root_path, path))
                                       @@ c.st.class_cache,
                   instance_cache |->
                       (path :> Inst(ClassOf(class_name, root_path, path), c.init_kwargs))
                           @@ c.st.instance_cache,
                   schema_defs |->
                       setitem(c.st.schema_defs, class_name,
                               _directory_schema(class_name, c.schema_properties,
                                                 c.required_fields, root_path, path)),
                   name_counts |-> c.st.name_counts,
                   classes |-> (ClassOf(class_name, root_path, path) :>
                                    [name |-> class_name, fields |-> definition.v])
                                   @@ c.st.classes])

\* _build_dir after its loop
DirCollected(root_path, path, class_name, looped) ==
    IF looped.err # NoError THEN [err |-> looped.err]
    ELSE DirDefined(root_path, path, class_name, looped.c,
                    _build_bundle_definition(looped.c.fields,
                                             DOMAIN looped.c.st.classes))

\* _build_dir once the class is named
DirNamed(fs, root_path, path, st, named) ==
    DirCollected(root_path, path, named.name,
        BuildEntriesFrom(fs, root_path, SortedEntries(fs, path), 1,
            Collected(<<>>, <<>>, <<>>, <<>>, {},
                      [st EXCEPT !.name_counts = named.name_counts])))

_build_dir(fs, root_path, path, preferred_name, st) ==
    IF path \in DOMAIN st.class_cache
    THEN DirBuilt(st.class_cache[path], st.instance_cache[path], st)
    ELSE DirNamed(fs, root_path, path, st,
             _unique_class_name(st.name_counts,
                 IF truthy(preferred_name) THEN preferred_name.s
                 ELSE IF path = <<>> THEN "root" ELSE Name(path),
                 preferred_name # None))

\* _BundleBuilder.schema()
schema(root_path, st) ==
    Dict(<<KV("$schema", Str("https://json-schema.org/draft/2020-12/schema")),
           KV("$id", Str("pyarty://" \o (IF root_path = <<>> THEN "" ELSE Name(root_path)))),
           KV("$ref", Str("#/$defs/" \o st.classes[st.class_cache[root_path]].name)),
           KV("$defs", Dict(st.schema_defs))>>)

InferredBundle(root_class, instance, schema_) ==
    [root_class |-> root_class, instance |-> instance, schema |-> schema_]

\* the builder of a fresh _BundleBuilder
NewBuilder ==
    [class_cache |-> <<>>, instance_cache |-> <<>>, schema_defs |-> <<>>,
     name_counts |-> <<>>, classes |-> <<>>]

\* infer_bundle_from_directory once the root is built
Inferred(root_path, built) ==
    IF built.err # NoError THEN [err |-> built.err]
    ELSE [err |-> NoError, classes |-> built.st.classes,
          v |-> InferredBundle(built.cls, built.instance, schema(root_path, built.st))]

infer_bundle_from_directory(fs, directory, root_class_name) ==
    IF ~is_dir(fs, Path(directory))
    THEN [err |-> Raise("FileNotFoundError", "does not exist or is not a directory")]
    ELSE Inferred(Path(directory),
                  _build_dir(fs, Path(directory), Path(directory), root_class_name,
                             NewBuilder))

----------------------------------------------------------------------------
(* The callers: classes declared with @bundle and twig, then written *)

ClassDecl(name, fields) == [name |-> name, fields |-> fields]

Target == "out"

\* functions used as hints
NameOf == Callable(AttrIndex("name"), 2, FALSE)
ConstAlpha == Callable(Const("alpha"), 0, FALSE)
ConstPre == Callable(Const("pre"), 0, FALSE)

NameHints ==
    {None, Str("alpha"), Str("{name}"), Tuple(<<Str("{name}"), Str("field")>>),
     NameOf, Tuple(<<NameOf, Str("field")>>), ConstAlpha, Str("{missing}"),
     Tuple(<<Str("{name}-{index}"), Str("field")>>)}

PrefixHints ==
    {None, Str("pre"), Str("{pfx}"), ConstPre, Str("{missing}")}

ItemKinds == {"file_str", "file_dict", "dir", "dir_list"}

ItemAnnotation(kind) ==
    CASE kind = "file_str" -> G("File", <<T("str")>>)
      [] kind = "file_dict" -> G("File", <<T("dict")>>)
      [] kind = "dir" -> G("Dir", <<T("Child")>>)
      [] kind = "dir_list" -> G("Dir", <<G("list", <<T("Child")>>)>>)

ChildNames == <<"alpha", "beta", "gamma", "delta", "epsilon">>

ChildInst(i) ==
    Inst("Child", <<KV("name", Str(ChildNames[i])), KV("pfx", Str("pre")),
                    KV("payload", Str("payload of " \o ChildNames[i]))>>)

ItemValue(kind, n) ==
    CASE kind = "file_str" -> Str("hello")
      [] kind = "file_dict" -> Dict(<<KV("name", Str("alpha")), KV("pfx", Str("pre"))>>)
      [] kind = "dir" -> ChildInst(1)
      [] kind = "dir_list" -> List([i \in 1..n |-> ChildInst(i)])

ChildDecl ==
    ClassDecl("Child",
        <<FieldDecl("name", T("str"), <<>>),
          FieldDecl("pfx", T("str"), <<>>),
          FieldDecl("payload", G("File", <<T("str")>>), <<>>)>>)

OwnerDecl(annotation, metadata) ==
    ClassDecl("Owner",
        <<FieldDecl("name", T("str"), <<>>),
          FieldDecl("pfx", T("str"), <<>>),
          FieldDecl("item", annotation, metadata),
          FieldDecl("tail", G("File", <<T("str")>>), <<>>)>>)

OwnerInst(item) ==
    Inst("Owner", <<KV("name", Str("alpha")), KV("pfx", Str("pre")),
                    KV("item", item), KV("tail", Str("end"))>>)

\* what the working directory holds before the call
EmptyFs == [dirs |-> {<<>>}, files |-> <<>>]

PreStates ==
    {EmptyFs,
     [dirs |-> {<<>>, <<"out">>}, files |-> <<>>],
     [dirs |-> {<<>>, <<"out">>}, files |-> <<"out", "old.txt">> :> "old"],
     [dirs |-> {<<>>, <<"out">>, <<"out", "item">>},
      files |-> <<"out", "item", "payload.txt">> :> "stale"
                    @@ <<"out", "tail.txt">> :> "stale"],
     [dirs |-> {<<>>, <<"out">>}, files |-> <<"out", "item">> :> "a file"],
     [dirs |-> {<<>>, <<"out">>, <<"out", "tail.txt">>}, files |-> <<>>]}

\* one field with name and prefix hints, written over every kind of target
HintScenarios ==
    {[decls |-> <<ChildDecl, OwnerDecl(ItemAnnotation(kind), twig(nh, None, ph))>>,
      bundle |-> OwnerInst(ItemValue(kind, n)),
      target |-> Target, overwrite |-> ow, pre |-> pre] :
        kind \in ItemKinds, nh \in NameHints, ph \in PrefixHints,
        n \in 1..1, ow \in BOOLEAN, pre \in PreStates}
    \cup
    {[decls |-> <<ChildDecl, OwnerDecl(ItemAnnotation("dir_list"), twig(nh, None, ph))>>,
      bundle |-> OwnerInst(ItemValue("dir_list", n)),
      target |-> Target, overwrite |-> ow, pre |-> pre] :
        nh \in NameHints, ph \in PrefixHints,
        n \in (0..MaxElems) \ {1}, ow \in BOOLEAN, pre \in PreStates}

\* the payload annotations of a File field, each with a value of that type;
\* UnionType is the origin of X | Y, Union that of typing.Union[X, Y]
Payloads ==
    {[ann |-> T("str"), value |-> Str("hello")],
     [ann |-> T("int"), value |-> PyInt(7)],
     [ann |-> T("float"), value |-> Str("hello")],
     [ann |-> T("bool"), value |-> Bool(TRUE)],
     [ann |-> T("bytes"), value |-> Bytes("hello")],
     [ann |-> T("Any"), value |-> Str("hello")],
     [ann |-> G("Annotated", <<T("str"), T("note")>>), value |-> Str("hello")],
     [ann |-> G("Union", <<T("str"), T("int")>>), value |-> Str("hello")],
     [ann |-> G("Union", <<T("str"), G("Union", <<T("int"), T("float")>>)>>),
      value |-> PyInt(7)],
     [ann |-> G("UnionType", <<T("str"), T("int")>>), value |-> Str("hello")],
     [ann |-> G("Union", <<T("str"), T("NoneType")>>), value |-> Str("hello")],
     [ann |-> G("Union", <<T("str"), T("dict")>>), value |-> Str("hello")],
     [ann |-> T("dict"), value |-> Dict(<<KV("a", PyInt(1))>>)],
     [ann |-> T("Mapping"), value |-> Dict(<<KV("a", PyInt(1))>>)],
     [ann |-> G("dict", <<T("str"), T("int")>>), value |-> Dict(<<KV("a", PyInt(1))>>)],
     [ann |-> G("MutableMapping", <<T("str"), T("int")>>), value |-> Dict(<<>>)],
     [ann |-> G("list", <<T("dict")>>),
      value |-> List(<<Dict(<<KV("a", PyInt(1))>>), Dict(<<>>)>>)],
     [ann |-> G("list", <<G("dict", <<T("str"), T("int")>>)>>),
      value |-> List(<<Dict(<<KV("a", PyInt(1))>>)>>)],
     [ann |-> G("Sequence", <<G("Annotated", <<T("Mapping"), T("note")>>)>>),
      value |-> List(<<>>)],
     [ann |-> G("list", <<T("str")>>), value |-> List(<<Str("a"), Str("b")>>)],
     [ann |-> G("list", <<T("int")>>), value |-> List(<<PyInt(1)>>)],
     [ann |-> G("MutableSequence", <<G("Union", <<T("str"), T("int")>>)>>),
      value |-> List(<<Str("a"), PyInt(1)>>)],
     [ann |-> G("list", <<>>), value |-> List(<<Str("a")>>)],
     [ann |-> T("list"), value |-> List(<<Str("a")>>)],
     [ann |-> G("list", <<G("list", <<T("str")>>)>>),
      value |-> List(<<List(<<Str("a")>>)>>)],
     [ann |-> G("list", <<T("bytes")>>), value |-> List(<<Bytes("a")>>)],
     [ann |-> G("tuple", <<T("str"), Ellipsis>>), value |-> Tuple(<<Str("a")>>)],
     [ann |-> G("set", <<T("str")>>), value |-> Str("hello")]}

\* the raw metadata of the field: nothing, or an extension configured by
\* twig, as a plain key, or inside a layer
ExtensionMetadata ==
    {<<>>,
     twig(None, Str(".csv"), None),
     twig(Str("x"), None, None),
     <<KV("extension", Str(" .csv "))>>,
     <<KV("File", Dict(<<KV("extension", Str("csv"))>>))>>,
     <<KV("<class File>", Dict(<<KV("name", Str("x")), KV("extension", Str(".csv"))>>))>>,
     <<KV("File", List(<<Dict(<<KV("name", Str("x"))>>),
                         Dict(<<KV("extension", Str("csv"))>>)>>))>>,
     <<KV("name", Str("x")), KV("File", Dict(<<KV("extension", Str("csv"))>>))>>,
     <<KV("Dir", Dict(<<KV("name", Str("x"))>>))>>,
     <<KV("extension", Str(" "))>>}

ExtensionDecl(annotation, metadata) ==
    ClassDecl("Owner", <<FieldDecl("item", annotation, metadata)>>)

\* one File field of every payload shape under every extension configuration
ExtensionScenarios ==
    {[decls |-> <<ExtensionDecl(G("File", <<p.ann>>), md)>>,
      bundle |-> Inst("Owner", <<KV("item", p.value)>>),
      target |-> Target, overwrite |-> FALSE, pre |-> EmptyFs] :
        p \in Payloads, md \in ExtensionMetadata}

Scenarios == HintScenarios \cup ExtensionScenarios

NoResult == [t |-> "none"]

TheBundle == IF result = NoResult THEN inputs.bundle ELSE result.instance

Init ==
    /\ inputs \in Scenarios
    /\ classes = <<>>
    /\ dirs = inputs.pre.dirs
    /\ files = inputs.pre.files
    /\ pc = "declare"
    /\ err = NoError
    /\ plan = <<>>
    /\ log = <<>>
    /\ result = NoResult

\* the class decorated, or the exception of its definition build
Decorated(i, decl, definition) ==
    IF IsOk(definition)
    THEN /\ classes' = (decl.name :> [name |-> decl.name, fields |-> definition.v])
                           @@ classes
         /\ pc' = IF i = Len(inputs.decls) THEN "write" ELSE "declare"
         /\ err' = err
    ELSE /\ classes' = classes
         /\ pc' = "done"
         /\ err' = definition.err

\* @bundle applied to the next declared class
Decorate ==
    /\ pc = "declare"
    /\ Decorated(Cardinality(DOMAIN classes) + 1,
                 inputs.decls[Cardinality(DOMAIN classes) + 1],
                 _build_bundle_definition(
                     inputs.decls[Cardinality(DOMAIN classes) + 1].fields,
                     DOMAIN classes))
    /\ UNCHANGED <<inputs, dirs, files, plan, log, result>>

\* bundle.write(target, overwrite): the call starts
WriteBundle ==
    /\ pc = "write"
    /\ plan' = write_bundle([dirs |-> dirs, files |-> files], TheBundle,
                            inputs.target, inputs.overwrite)
    /\ pc' = IF plan' = <<>> THEN "done" ELSE "render"
    /\ UNCHANGED <<inputs, classes, dirs, files, err, log, result>>

\* the operation o performed with outcome r
Performed(o, r) ==
    /\ dirs' = r.fs.dirs
    /\ files' = r.fs.files
    /\ err' = r.err
    /\ log' = Append(log, o)
    /\ plan' = IF r.err = NoError THEN Tail(plan) ELSE <<>>
    /\ pc' = IF r.err = NoError /\ Tail(plan) # <<>> THEN "render" ELSE "done"

\* the running write performs its next filesystem operation, or raises
Step ==
    /\ pc = "render"
    /\ Performed(Head(plan), Apply([dirs |-> dirs, files |-> files], Head(plan)))
    /\ UNCHANGED <<inputs, classes, result>>

Next == Decorate \/ WriteBundle \/ Step

Spec == Init /\ [][Next]_vars

----------------------------------------------------------------------------
(* The callers: a directory tree inferred, then the instance written *)

Source == "src"

\* the files a source directory may hold, at most one of each line
TextFiles ==
    {<<>>, <<"a.txt">> :> "hello", <<"a.txt">> :> "one\r\ntwo\r\n"}

\* a document whose keys are out of order, with empty and repeated shapes,
\* and a document with an array of every kind of scalar
RichJson == "{\"b\": [[1], [2]], \"a\": {\"z\": [], \"y\": {}}}"

MixedJson == "{\"b\": [1, true, 2, \"x\", 1.5, null]}"

JsonFiles ==
    {<<>>,
     <<"b.json">> :> "{\n  \"a\": 1\n}",
     <<"b.json">> :> "{\"a\": 1}",
     <<"b.json">> :> "null",
     <<"b.json">> :> "\"hi\"",
     <<"a.json">> :> "[1, [true, \"x\"]]",
     <<"b.json">> :> RichJson,
     <<"b.json">> :> MixedJson}

JsonlFiles ==
    {<<>>,
     <<"c.jsonl">> :> "{\"a\": 1}\n{\"b\": [2]}\n",
     <<"c.jsonl">> :> "{\"a\": 1}\n\n7\n"}

OtherFiles ==
    {<<>>, <<"notes.md">> :> "# notes", <<"D.TXT">> :> "shout", <<"README">> :> "read"}

\* the sub-directories a source directory may hold
SubTrees ==
    {[dirs |-> {}, files |-> <<>>],
     [dirs |-> {<<"sub">>}, files |-> <<>>],
     [dirs |-> {<<"sub">>}, files |-> <<"sub", "a.txt">> :> "inner"],
     [dirs |-> {<<"sub">>}, files |-> <<"sub", "notes.md">> :> "# notes"],
     [dirs |-> {<<"sub">>, <<"sub", "deep">>},
      files |-> <<"sub", "deep", "notes.md">> :> "# notes"],
     [dirs |-> {<<"sub">>, <<"sub", "deep">>, <<"My Dir">>},
      files |-> <<"sub", "deep", "b.json">> :> "{}"
                    @@ <<"sub", "a.txt">> :> "inner"
                    @@ <<"My Dir", "x.txt">> :> ""],
     [dirs |-> {<<"sub">>, <<"sub", "sub">>}, files |-> <<>>],
     [dirs |-> {<<"sub">>, <<"sub", "sub">>, <<"sub2">>}, files |-> <<>>],
     [dirs |-> {<<"a-b">>, <<"a_b">>, <<"class">>},
      files |-> <<"9.txt">> :> "nine" @@ <<"a_b_2.txt">> :> "two"
                    @@ <<"class", "---.json">> :> "[]"],
     [dirs |-> {<<"{x}d">>}, files |-> <<"{x}d", "{name}.txt">> :> "hi"]}

\* the tree moved below the directory at
Below(at, tree) ==
    [dirs |-> {at \o d : d \in tree.dirs},
     files |-> [q \in {at \o f : f \in DOMAIN tree.files} |->
                   tree.files[SubSeq(q, Len(at) + 1, Len(q))]]]

\* the working directory holding the source tree, and the target when made
SourceFs(tree, made) ==
    [dirs |-> {<<>>, <<Source>>} \cup Below(<<Source>>, tree).dirs
                  \cup (IF made THEN {<<Target>>} ELSE {}),
     files |-> Below(<<Source>>, tree).files]

SourceTrees ==
    {[dirs |-> sub.dirs, files |-> txt @@ json @@ jsonl @@ other @@ sub.files] :
        txt \in TextFiles, json \in JsonFiles, jsonl \in JsonlFiles,
        other \in OtherFiles, sub \in SubTrees}

InferScenarios ==
    {[source |-> Source, root_class_name |-> None, tree |-> tree,
      target |-> Target, overwrite |-> FALSE, pre |-> SourceFs(tree, made)] :
        tree \in SourceTrees, made \in BOOLEAN}

InitInfer ==
    /\ inputs \in InferScenarios
    /\ classes = <<>>
    /\ dirs = inputs.pre.dirs
    /\ files = inputs.pre.files
    /\ pc = "infer"
    /\ err = NoError
    /\ plan = <<>>
    /\ log = <<>>
    /\ result = NoResult

\* the InferredBundle returned, or the exception
Returned(r) ==
    IF r.err = NoError
    THEN /\ classes' = r.classes
         /\ result' = r.v
         /\ err' = err
         /\ pc' = "write"
    ELSE /\ classes' = classes
         /\ result' = result
         /\ err' = r.err
         /\ pc' = "done"

\* infer_bundle_from_directory(source)
Infer ==
    /\ pc = "infer"
    /\ Returned(infer_bundle_from_directory([dirs |-> dirs, files |-> files],
                                            inputs.source, inputs.root_class_name))
    /\ UNCHANGED <<inputs, dirs, files, plan, log>>

NextInfer == Infer \/ WriteBundle \/ Step

SpecInfer == InitInfer /\ [][NextInfer]_vars

----------------------------------------------------------------------------
(* The callers: a set of reports declared field by field, then written *)

ReportDecl ==
    ClassDecl("Report",
        <<FieldDecl("name", T("str"), <<>>),
          FieldDecl("body", G("File", <<T("str")>>), twig(Str("{name}"), None, None)),
          FieldDecl("details", G("File", <<T("dict")>>), <<>>)>>)

\* the report i; the second report holds no details
ReportInst(i) ==
    Inst("Report",
         <<KV("name", Str(ChildNames[i])),
           KV("body", Str("body of " \o ChildNames[i])),
           KV("details", IF i = 2 THEN None
                         ELSE Dict(<<KV("score", PyInt(i))>>))>>)

\* the name hints of the collection: read off each element, or off the owner
ReportHints ==
    {Tuple(<<Str("{name}"), Str("field")>>), Str("{label}"),
     Tuple(<<Str("{label}"), Str("SELF")>>),
     Tuple(<<Str("{label}"), Str("field")>>), Str("{name}")}

\* the fields a set may declare, each with the values it may hold
SetFields(hint, n) ==
    <<[decl |-> FieldDecl("label", T("str"), <<>>),
       values |-> {Str("demo")}],
      [decl |-> FieldDecl("reports", G("Dir", <<G("list", <<T("Report")>>)>>),
                          twig(hint, None, None)),
       values |-> {None, List([i \in 1..n |-> ReportInst(i)])}],
      [decl |-> FieldDecl("summary", G("File", <<T("dict")>>), <<>>),
       values |-> {None, Dict(<<KV("reports", PyInt(n))>>)}],
      [decl |-> FieldDecl("cover", G("Dir", <<T("Report")>>), <<>>),
       values |-> {None, ReportInst(3)}]>>

\* the orders the fields may be declared in
Orders == {p \in [1..4 -> 1..4] : \A i, j \in 1..4 : p[i] = p[j] => i = j}

\* the values the fields hold, one of its values for each
SetValues(hint, n) ==
    {w \in [1..4 -> UNION {SetFields(hint, n)[i].values : i \in 1..4}] :
        \A i \in 1..4 : w[i] \in SetFields(hint, n)[i].values}

\* the set declared under the hint, its fields in every order
SetScenariosOf(hint, n) ==
    {[decls |-> <<ReportDecl,
                  ClassDecl("Set", [i \in 1..4 |-> SetFields(hint, n)[p[i]].decl])>>,
      bundle |-> Inst("Set", [i \in 1..4 |->
                                 KV(SetFields(hint, n)[p[i]].decl.name, v[p[i]])]),
      target |-> Target, overwrite |-> FALSE, pre |-> EmptyFs] :
        p \in Orders, v \in SetValues(hint, n)}

SetScenarios ==
    UNION {SetScenariosOf(hint, n) : hint \in ReportHints, n \in {0, 2}}

\* a function returning the attribute pfx of the owner, and the index it gets
PfxOf == Callable(AttrIndex("pfx"), 2, FALSE)

\* name and prefix hints that show the index they are resolved with
IndexNameHints ==
    {None, NameOf, Tuple(<<NameOf, Str("field")>>),
     Tuple(<<Str("{name}-{index}"), Str("field")>>), Str("n{index}")}

IndexPrefixHints == {None, Str("p{index}"), PfxOf}

\* one field under such hints: a File, a Directory, a Directory collection
IndexScenarios ==
    {[decls |-> <<ChildDecl, OwnerDecl(ItemAnnotation(kind), twig(nh, None, ph))>>,
      bundle |-> OwnerInst(ItemValue(kind, n)),
      target |-> Target, overwrite |-> FALSE, pre |-> EmptyFs] :
        kind \in {"file_str", "dir", "dir_list"},
        nh \in IndexNameHints, ph \in IndexPrefixHints, n \in 0..MaxElems}

\* a pathlib.Path object held as a value
PathValue(s) == [t |-> "path", s |-> s]

\* a File field declared with copyfile=True in its metadata, plainly or in
\* the File layer
CopyMetadata ==
    {<<KV("copyfile", Bool(TRUE))>>,
     <<KV("File", Dict(<<KV("copyfile", Bool(TRUE))>>))>>}

\* the working directory holding the files the values name
CopySources(made) ==
    [dirs |-> {<<>>} \cup (IF made THEN {<<Target>>} ELSE {}),
     files |-> <<"source.bin">> :> "binary-ish" @@ <<"data.raw">> :> "raw bytes"]

\* the field holding the name of a file, as text or as a path object
CopyScenarios ==
    {[decls |-> <<ClassDecl("CopyFileBundle",
                      <<FieldDecl("asset", G("File", <<T("str")>>), md)>>)>>,
      bundle |-> Inst("CopyFileBundle", <<KV("asset", v)>>),
      target |-> Target, overwrite |-> FALSE, pre |-> CopySources(made)] :
        md \in CopyMetadata, made \in BOOLEAN,
        v \in {Str("source.bin"), PathValue("data.raw"),
               Str("missing.txt"), PathValue("missing.txt")}}

InitSet ==
    /\ inputs \in SetScenarios \cup IndexScenarios \cup CopyScenarios
    /\ classes = <<>>
    /\ dirs = inputs.pre.dirs
    /\ files = inputs.pre.files
    /\ pc = "declare"
    /\ err = NoError
    /\ plan = <<>>
    /\ log = <<>>
    /\ result = NoResult

SpecSet == InitSet /\ [][Next]_vars

----------------------------------------------------------------------------
(* The callers: one field declared under an annotation and raw metadata, *)
(* the definition built by @bundle, then the instance written            *)

Note == T("note")

\* the children a collection value holds
TwoChildren == <<ChildInst(1), ChildInst(2)>>

\* the Dir annotations a field may carry, each with a value of that type
\* (None where no value of the type is a bundle); Plain is a class that is
\* not decorated
DirAnnotations ==
    {[ann |-> G("Dir", <<T("Child")>>), value |-> ChildInst(1)],
     [ann |-> G("Dir", <<G("Annotated", <<T("Child"), Note>>)>>),
      value |-> ChildInst(1)],
     [ann |-> G("Annotated", <<G("Dir", <<T("Child")>>), Note>>),
      value |-> ChildInst(1)],
     [ann |-> G("Dir", <<G("list", <<T("Child")>>)>>), value |-> List(TwoChildren)],
     [ann |-> G("Dir", <<G("tuple", <<T("Child"), Ellipsis>>)>>),
      value |-> Tuple(TwoChildren)],
     [ann |-> G("Dir", <<G("Sequence", <<T("Child")>>)>>), value |-> List(<<>>)],
     [ann |-> G("Dir", <<G("Annotated", <<G("list", <<T("Child")>>), Note>>)>>),
      value |-> List(TwoChildren)],
     [ann |-> G("Dir", <<G("list", <<G("list", <<T("Child")>>)>>)>>),
      value |-> List(<<List(TwoChildren)>>)],
     [ann |-> G("Dir", <<G("list", <<G("list", <<T("Child")>>)>>)>>),
      value |-> List(<<>>)],
     [ann |-> G("Dir", <<G("tuple", <<G("list", <<T("Child")>>), Ellipsis>>)>>),
      value |-> Tuple(<<List(TwoChildren)>>)],
     [ann |-> G("Dir", <<G("list", <<G("list", <<G("list", <<T("Child")>>)>>)>>)>>),
      value |-> List(<<List(<<List(TwoChildren)>>)>>)],
     [ann |-> G("Dir", <<T("int")>>), value |-> None],
     [ann |-> G("Dir", <<T("Plain")>>), value |-> None],
     [ann |-> G("Dir", <<T("list")>>), value |-> None],
     [ann |-> G("Dir", <<G("list", <<>>)>>), value |-> None],
     [ann |-> G("Dir", <<G("list", <<T("int")>>)>>), value |-> None],
     [ann |-> G("Dir", <<G("list", <<G("list", <<T("int")>>)>>)>>), value |-> None],
     [ann |-> G("Dir", <<G("dict", <<T("str"), T("Child")>>)>>), value |-> None],
     [ann |-> G("Dir", <<G("Union", <<T("Child"), T("NoneType")>>)>>),
      value |-> None]}

AnnotationScenarios ==
    {[decls |-> <<ChildDecl, OwnerDecl(d.ann, <<>>)>>,
      bundle |-> OwnerInst(d.value),
      target |-> Target, overwrite |-> FALSE, pre |-> EmptyFs] :
        d \in DirAnnotations}

\* the raw values given as a name or a prefix
RawHints ==
    {None, Str("alpha"), Str("{name}"), Str("{name"), Str("name}"), Str("}{"),
     Str(""), NameOf, ConstAlpha,
     Tuple(<<Str("{name}"), Str("field")>>),
     Tuple(<<Str("{name}"), Str("self")>>),
     Tuple(<<Str("{name}"), Str("FIELD")>>),
     Tuple(<<Str("alpha"), Str("Self")>>),
     Tuple(<<Str("{name}"), Str(" field ")>>),
     Tuple(<<Str("alpha"), Str("SELF ")>>),
     Tuple(<<NameOf, Str(" Field")>>),
     Tuple(<<Str("{name}"), Str("owner")>>),
     Tuple(<<Str("{name}"), Str("fi eld")>>),
     Tuple(<<Str("alpha"), Str("")>>),
     Tuple(<<Str("alpha"), Str(" ")>>),
     Tuple(<<NameOf, Str("field")>>),
     Tuple(<<NameOf, Str("elsewhere")>>),
     Tuple(<<Str(""), Str("field")>>),
     Tuple(<<Str(""), Str("nowhere")>>)}

\* the entry the raw value is given as
HintEntries == {"name", "prefix"}

\* field(metadata={entry: raw}): what twig builds, and the entry left at None
RawHintMetadata(entry, raw) == <<KV(entry, raw)>>

RawHintScenarios ==
    {[decls |-> <<ChildDecl,
                  OwnerDecl(ItemAnnotation(kind), RawHintMetadata(entry, raw))>>,
      bundle |-> OwnerInst(ItemValue(kind, 2)),
      target |-> Target, overwrite |-> FALSE, pre |-> EmptyFs] :
        kind \in {"file_str", "dir_list"}, entry \in HintEntries, raw \in RawHints}

\* raw metadata that names layers: plain keys belong to the root layer of the
\* field, a layer key holds one mapping or a sequence of mappings
LayeredMetadata ==
    {<<KV("name", Str("x"))>>,
     <<KV("File", Dict(<<KV("name", Str("y"))>>))>>,
     <<KV("Dir", Dict(<<KV("name", Str("y"))>>))>>,
     <<KV("name", Str("x")), KV("File", Dict(<<KV("name", Str("y"))>>))>>,
     <<KV("name", Str("x")), KV("Dir", Dict(<<KV("name", Str("y"))>>))>>,
     <<KV("prefix", Str("pre")), KV("<class File>", Dict(<<KV("extension", Str("csv"))>>))>>,
     <<KV("prefix", Str("pre")), KV("<class Dir>", Dict(<<KV("prefix", Str("q"))>>))>>,
     <<KV("File", Dict(<<KV("name", Str("x"))>>)),
       KV("<class File>", Dict(<<KV("name", Str("y"))>>))>>,
     <<KV("Dir", Dict(<<KV("name", Str("x"))>>)),
       KV("<class Dir>", Dict(<<KV("name", Str("y"))>>))>>,
     <<KV("Dir", Dict(<<KV("name", Str("x"))>>)),
       KV("File", Dict(<<KV("name", Str("y"))>>))>>,
     <<KV("File", List(<<Dict(<<KV("name", Str("x"))>>),
                         Dict(<<KV("name", Str("y"))>>)>>))>>,
     <<KV("Dir", List(<<Dict(<<KV("name", Str("x"))>>),
                        Dict(<<KV("name", Str("y"))>>)>>))>>,
     <<KV("name", Str("x")),
       KV("Dir", List(<<Dict(<<KV("name", Str("y"))>>),
                        Dict(<<KV("name", Str("z"))>>)>>))>>,
     <<KV("File", List(<<>>))>>,
     <<KV("File", Str("x"))>>}

LayeredScenarios ==
    {[decls |-> <<ChildDecl, OwnerDecl(ItemAnnotation(kind), md)>>,
      bundle |-> OwnerInst(ItemValue(kind, 2)),
      target |-> Target, overwrite |-> FALSE, pre |-> EmptyFs] :
        kind \in {"file_str", "dir", "dir_list"}, md \in LayeredMetadata}

DefineScenarios == AnnotationScenarios \cup RawHintScenarios \cup LayeredScenarios

InitDefine ==
    /\ inputs \in DefineScenarios
    /\ classes = <<>>
    /\ dirs = inputs.pre.dirs
    /\ files = inputs.pre.files
    /\ pc = "declare"
    /\ err = NoError
    /\ plan = <<>>
    /\ log = <<>>
    /\ result = NoResult

SpecDefine == InitDefine /\ [][Next]_vars

----------------------------------------------------------------------------
(* The callers: bundles written whose names, payloads and nesting vary *)

\* the functions given as hints: every count of positional parameters, with
\* and without *args
ShownCallables == {Callable(ArgsShown, p, v) : p \in 0..2, v \in BOOLEAN}

\* one field named or prefixed by such a function, called on the owner or on
\* the value of the field
CallableScenarios ==
    {[decls |-> <<ChildDecl,
                  OwnerDecl(ItemAnnotation(kind), RawHintMetadata(entry, raw))>>,
      bundle |-> OwnerInst(ItemValue(kind, 2)),
      target |-> Target, overwrite |-> FALSE, pre |-> EmptyFs] :
        kind \in {"file_str", "dir", "dir_list"}, entry \in HintEntries,
        raw \in ShownCallables
                  \cup {Tuple(<<f, Str("field")>>) : f \in ShownCallables}}

\* an object that exposes read() and nothing else, holding the bytes s
Stream(s) == [t |-> "stream", s |-> s]

\* the payloads a File field may hold: bytes, text, JSON values, a reader,
\* and values that json cannot encode, alone or inside a container
PayloadValues ==
    {Bytes("raw"), Str("text"),
     Dict(<<KV("a", PyInt(1)), KV("b", List(<<PyInt(1), PyInt(2)>>))>>),
     List(<<Dict(<<KV("a", PyInt(1))>>), Dict(<<KV("b", Str("x"))>>)>>),
     Tuple(<<Dict(<<KV("a", PyInt(1))>>)>>),
     List(<<>>), PyInt(7), Bool(TRUE), Stream("bytes"), Obj,
     Dict(<<KV("a", PyInt(1)), KV("o", Obj)>>),
     List(<<Dict(<<KV("a", PyInt(1))>>), Obj>>),
     List(<<Obj>>)}

\* the extension configured with twig, None for a field without extension
PayloadExtensions == {None, Str("json"), Str("jsonl"), Str("txt"), Str("JSON")}

\* one File field of any payload type holding each payload under each extension
PayloadScenarios ==
    {[decls |-> <<ExtensionDecl(G("File", <<T("Any")>>), twig(None, e, None))>>,
      bundle |-> Inst("Owner", <<KV("item", v)>>),
      target |-> Target, overwrite |-> FALSE, pre |-> EmptyFs] :
        v \in PayloadValues, e \in PayloadExtensions}

\* a tree three levels deep: a Tree of branches, each a directory of leaves;
\* every directory is named after the name of its element
ByName == twig(Tuple(<<Str("{name}"), Str("field")>>), None, None)

BranchFields ==
    <<FieldDecl("leaves", G("Dir", <<G("list", <<T("Child")>>)>>), ByName),
      FieldDecl("note", G("File", <<T("str")>>), <<>>)>>

TreeFields ==
    <<FieldDecl("branches", G("Dir", <<G("list", <<T("Branch")>>)>>), ByName),
      FieldDecl("single", G("Dir", <<T("Child")>>), <<>>),
      FieldDecl("summary", G("File", <<T("str")>>), <<>>)>>

\* the orders n fields may be declared in
OrdersOf(n) == {p \in [1..n -> 1..n] : \A i, j \in 1..n : p[i] = p[j] => i = j}

\* branch b of a tree whose branches hold m leaves each: the leaves of
\* branch b are the children b, b + 1, ...
BranchInst(b, m) ==
    Inst("Branch",
         <<KV("name", Str("branch" \o ToString(b))),
           KV("leaves", List([i \in 1..m |-> ChildInst(b + i - 1)])),
           KV("note", Str("note of branch " \o ToString(b)))>>)

TreeInst(n, m) ==
    Inst("Tree",
         <<KV("branches", List([b \in 1..n |-> BranchInst(b, m)])),
           KV("single", ChildInst(5)),
           KV("summary", Str("summary"))>>)

TreeScenarios ==
    {[decls |-> <<ChildDecl,
                  ClassDecl("Branch", [i \in 1..2 |-> BranchFields[q[i]]]),
                  ClassDecl("Tree", [i \in 1..3 |-> TreeFields[p[i]]])>>,
      bundle |-> TreeInst(n, m),
      target |-> Target, overwrite |-> FALSE, pre |-> EmptyFs] :
        p \in OrdersOf(3), q \in OrdersOf(2), n \in 0..2, m \in 0..2}

\* one field beside the File field tail: left to its default name, named
\* like its neighbour, or named after each element
SharedNameHints ==
    {None, Str("tail"), Str("alpha"), Tuple(<<Str("{name}"), Str("field")>>)}

SharedScenarios ==
    {[decls |-> <<ChildDecl, OwnerDecl(ItemAnnotation(kind), twig(nh, None, None))>>,
      bundle |-> OwnerInst(ItemValue(kind, n)),
      target |-> Target, overwrite |-> FALSE, pre |-> EmptyFs] :
        kind \in {"file_str", "dir_list"}, nh \in SharedNameHints,
        n \in 0..MaxElems}

\* an owner whose attributes hold paths: one that climbs, one that is absolute
ClimbingInst(item) ==
    Inst("Owner", <<KV("name", Str("../up")), KV("pfx", Str("/abs")),
                    KV("item", item), KV("tail", Str("end"))>>)

\* names and prefixes that are paths, given as literals, through a template,
\* or returned by a function
PathHints ==
    {Str("a/b"), Str("a/../b"), Str("../escape"), Str(".."), Str("a/../../escape"),
     Str("/abs/x"), Str("{name}"), Str("{pfx}"), NameOf, PfxOf}

\* the working directory, empty or holding a file beside the target
BesideFs == [dirs |-> {<<>>}, files |-> <<"escape.txt">> :> "precious"]

PathScenarios ==
    {[decls |-> <<ChildDecl,
                  OwnerDecl(ItemAnnotation(kind), RawHintMetadata(entry, raw))>>,
      bundle |-> ClimbingInst(ItemValue(kind, 2)),
      target |-> Target, overwrite |-> FALSE, pre |-> pre] :
        kind \in {"file_str", "dir", "dir_list"}, entry \in HintEntries,
        raw \in PathHints, pre \in {EmptyFs, BesideFs}}

WriteScenarios ==
    CallableScenarios \cup PayloadScenarios \cup TreeScenarios \cup SharedScenarios
        \cup PathScenarios

InitWrite ==
    /\ inputs \in WriteScenarios
    /\ classes = <<>>
    /\ dirs = inputs.pre.dirs
    /\ files = inputs.pre.files
    /\ pc = "declare"
    /\ err = NoError
    /\ plan = <<>>
    /\ log = <<>>
    /\ result = NoResult

SpecWrite == InitWrite /\ [][Next]_vars

----------------------------------------------------------------------------
(* Properties: what the scenario of a state is *)

\* write was called
WriteCalled == pc = "render" \/ (pc = "done" /\ (log # <<>> \/ err = NoError))

\* write has returned, or raised
WriteEnded == pc = "done" /\ (log # <<>> \/ err = NoError)

\* the target directory exists before the call and holds an entry
NonEmptyTarget ==
    /\ <<Target>> \in inputs.pre.dirs
    /\ \E q \in inputs.pre.dirs \cup DOMAIN inputs.pre.files :
           Len(q) = 2 /\ q[1] = Target

\* the target directory is absent or empty before the call
FreshTarget ==
    /\ <<Target>> \notin DOMAIN inputs.pre.files
    /\ ~NonEmptyTarget

\* the scenario declares Owner with the field item under name and prefix hints
OneHintedField == "decls" \in DOMAIN inputs /\ Len(inputs.decls) = 2

\* the scenario declares Owner with the one File field item
OneFileField == "decls" \in DOMAIN inputs /\ Len(inputs.decls) = 1

\* the field item as declared, and the value it holds
ItemDeclared ==
    inputs.decls[Len(inputs.decls)].fields[IF Len(inputs.decls) = 2 THEN 3 ELSE 1]

ItemHeld == getattr(inputs.bundle, "item")

NameHinted == get(ItemDeclared.metadata, "name")
PrefixHinted == get(ItemDeclared.metadata, "prefix")

\* item is a Directory collection field; the elements it holds
DirCollection ==
    /\ OneHintedField
    /\ ItemDeclared.annotation = G("Dir", <<G("list", <<T("Child")>>)>>)

Elements == ItemHeld.items

\* the directory the entries of item are placed in: the target, or the
\* prefix below it
ItemBase ==
    IF PrefixHinted = None THEN <<Target>> ELSE <<Target, "pre">>

\* the operations run one after the other from r, up to the first that raises
RECURSIVE RunFrom(_, _)
RunFrom(r, ops) ==
    IF ops = <<>> \/ r.err # NoError THEN r
    ELSE RunFrom(Apply(r.fs, Head(ops)), Tail(ops))

\* the bundle written into an absent target: the filesystem it leaves
WrittenAfresh ==
    RunFrom([fs |-> EmptyFs, err |-> NoError],
            write_bundle(EmptyFs, TheBundle, inputs.target, TRUE))

\* a pre-existing entry is a file where the bundle makes a directory, or a
\* directory where the bundle writes a file
KindConflict ==
    \/ \E q \in DOMAIN inputs.pre.files : q \in WrittenAfresh.fs.dirs
    \/ \E q \in inputs.pre.dirs : q \in DOMAIN WrittenAfresh.fs.files

----------------------------------------------------------------------------
(* Properties of write *)

\* C2: when the target is a non-empty directory and overwrite is false, write
\* raises RenderError and the filesystem stays exactly as it was before the
\* call: nothing is created, modified or deleted.
C2_DestinationGuard ==
    (WriteCalled /\ NonEmptyTarget /\ ~inputs.overwrite) =>
        /\ dirs = inputs.pre.dirs
        /\ files = inputs.pre.files
        /\ pc = "done" => err.type = "RenderError"

C2_Witness ==
    /\ pc = "done" /\ log # <<>>
    /\ NonEmptyTarget /\ ~inputs.overwrite
    /\ err.type = "RenderError"
    /\ files = inputs.pre.files

\* the files the bundle produces are written, the other files are as before
Overlaid ==
    /\ err = NoError
    /\ \A q \in DOMAIN WrittenAfresh.fs.files :
           q \in DOMAIN files /\ files[q] = WrittenAfresh.fs.files[q]
    /\ \A q \in DOMAIN inputs.pre.files \ DOMAIN WrittenAfresh.fs.files :
           q \in DOMAIN files /\ files[q] = inputs.pre.files[q]

CollectionWritten ==
    /\ WriteEnded /\ err = NoError
    /\ DirCollection /\ NameHinted = None
    /\ Len(Elements) >= 1

C5_CollectionDefaultName ==
    CollectionWritten =>
        /\ \A i \in 1..Len(Elements) :
               \E k \in 1..Len(log) :
                   /\ log[k].op = "write"
                   /\ log[k].path = ItemBase \o <<"item", "payload.txt">>
                   /\ log[k].data = getattr(Elements[i], "payload").s
        /\ \A k \in 1..Len(log) :
               log[k].op = "write" =>
                   log[k].path \in {ItemBase \o <<"item", "payload.txt">>,
                                    <<Target, "tail.txt">>}
        /\ files[ItemBase \o <<"item", "payload.txt">>]
               = getattr(Elements[Len(Elements)], "payload").s

C5_Witness ==
    /\ CollectionWritten
    /\ Len(Elements) = 1
    /\ PrefixHinted = None
    /\ files[<<Target, "item", "payload.txt">>] = "payload of alpha"
    /\ <<Target, "item_0">> \notin dirs

\* the name hints that resolve to "alpha" and the prefix hints that resolve
\* to "pre" whenever they resolve: literals, templates and callables, read
\* off the owner or off the field's value
AlphaHints ==
    {Str("alpha"), Str("{name}"), Tuple(<<Str("{name}"), Str("field")>>),
     NameOf, Tuple(<<NameOf, Str("field")>>), ConstAlpha}

PreHints == {Str("pre"), Str("{pfx}"), ConstPre}

\* item is one Directory or one File, with a name hint and a prefix hint
SingleHinted ==
    /\ OneHintedField
    /\ ItemDeclared.annotation \in
           {G("File", <<T("str")>>), G("File", <<T("dict")>>), G("Dir", <<T("Child")>>)}
    /\ NameHinted \in AlphaHints
    /\ PrefixHinted \in PreHints

\* C6: a Directory or File field whose name hint resolves to n = "alpha" and
\* whose prefix hint resolves to p = "pre" is placed at <target>/pre/alpha,
\* the extension following the name of a file, whether each hint is a
\* literal, a template or a callable; literal and constant-callable hints
\* always resolve.
C6_HintPrecedence ==
    /\ (SingleHinted /\ WriteEnded /\ err = NoError) =>
           CASE ItemDeclared.annotation = G("Dir", <<T("Child")>>) ->
                    /\ <<Target, "pre", "alpha">> \in dirs
                    /\ <<Target, "pre", "alpha", "payload.txt">> \in DOMAIN files
                    /\ files[<<Target, "pre", "alpha", "payload.txt">>] = "payload of alpha"
             [] ItemDeclared.annotation = G("File", <<T("str")>>) ->
                    /\ <<Target, "pre", "alpha.txt">> \in DOMAIN files
                    /\ files[<<Target, "pre", "alpha.txt">>] = "hello"
             [] OTHER ->
                    <<Target, "pre", "alpha.json">> \in DOMAIN files
    /\ (/\ SingleHinted /\ WriteEnded /\ FreshTarget
        /\ NameHinted \in {Str("alpha"), ConstAlpha}
        /\ PrefixHinted \in {Str("pre"), ConstPre}) => err = NoError

C6_Witness ==
    /\ SingleHinted /\ WriteEnded /\ err = NoError
    /\ NameHinted = Str("{name}") /\ PrefixHinted = ConstPre
    /\ ItemDeclared.annotation = G("File", <<T("dict")>>)
    /\ <<Target, "pre", "alpha.json">> \in DOMAIN files

\* the hints of item whose resolution meets the template "{missing}": the
\* name hint is resolved first, the prefix hint once the name is resolved
MissingKeyResolved ==
    /\ OneHintedField
    /\ \/ NameHinted = Str("{missing}")
       \/ /\ PrefixHinted = Str("{missing}")
          /\ NameHinted \in {None, Str("alpha"), ConstAlpha}
    /\ ItemHeld.t = "list" => Len(ItemHeld.items) >= 1

\* C8: resolving a template name or prefix hint whose placeholder is absent
\* from the attributes of the resolution source raises RenderError naming
\* the missing key, and neither a file nor a directory is created for the
\* field: the target directory itself is all that write has made.
C8_TemplateMissingKey ==
    (/\ MissingKeyResolved /\ WriteEnded
     /\ (inputs.overwrite \/ FreshTarget) /\ <<Target>> \notin DOMAIN inputs.pre.files) =>
        /\ err = RaiseKey("RenderError", "Missing template variable", "missing")
        /\ files = inputs.pre.files
        /\ dirs = inputs.pre.dirs \cup {<<Target>>}
        /\ \A k \in 1..Len(log) : log[k].field = "item" => log[k].op = "raise"

C8_Witness ==
    /\ MissingKeyResolved /\ WriteEnded
    /\ PrefixHinted = Str("{missing}") /\ NameHinted = Str("alpha")
    /\ err = RaiseKey("RenderError", "Missing template variable", "missing")
    /\ <<Target>> \in dirs \ inputs.pre.dirs
    /\ log[Len(log)].field = "item"

----------------------------------------------------------------------------
(* Properties of the definition build *)

\* the class Owner has been decorated
OwnerDefined == pc # "declare" /\ "Owner" \in DOMAIN classes

\* the payload annotation of the File field item
PayloadDeclared == ItemDeclared.annotation.a[1]

\* the extensions the definition holds for the field item, over its records
ExtensionsHeld ==
    {get(m.data, "extension") :
        m \in {classes["Owner"].fields[1].metadata[i] :
                  i \in {k \in 1..Len(classes["Owner"].fields[1].metadata) :
                            has_key(classes["Owner"].fields[1].metadata[k].data,
                                    "extension")}}}

\* the shapes of a payload annotation, Annotated[...] being transparent
Bare(a) == IF a.o = "Annotated" THEN a.a[1] ELSE a

RECURSIVE ScalarShape(_)
ScalarShape(a) ==
    \/ ~Bare(a).gen /\ Bare(a).o \in {"str", "int", "float"}
    \/ /\ Bare(a).gen /\ Bare(a).o \in {"Union", "UnionType"}
       /\ \A i \in 1..Len(Bare(a).a) : ScalarShape(Bare(a).a[i])

ObjectShape(a) == Bare(a).o \in {"dict", "Mapping", "MutableMapping"}

ListShape(a) ==
    /\ Bare(a).gen /\ Bare(a).o \in {"list", "Sequence", "MutableSequence"}
    /\ Len(Bare(a).a) >= 1

\* the extension the payload shape calls for, None when it calls for none
ExtensionOfShape(a) ==
    IF ScalarShape(a) THEN Str("txt")
    ELSE IF ObjectShape(a) THEN Str("json")
    ELSE IF ListShape(a) /\ ObjectShape(Bare(a).a[1]) THEN Str("jsonl")
    ELSE IF ListShape(a) /\ ScalarShape(Bare(a).a[1]) THEN Str("txt")
    ELSE None

\* the raw metadata of item configures no extension / configures csv
NoExtensionConfigured ==
    ItemDeclared.metadata \in
        {<<>>, twig(Str("x"), None, None),
         <<KV("Dir", Dict(<<KV("name", Str("x"))>>))>>}

ExtensionConfigured ==
    ItemDeclared.metadata \in
        {twig(None, Str(".csv"), None),
         <<KV("extension", Str(" .csv "))>>,
         <<KV("File", Dict(<<KV("extension", Str("csv"))>>))>>,
         <<KV("<class File>", Dict(<<KV("name", Str("x")), KV("extension", Str(".csv"))>>))>>,
         <<KV("File", List(<<Dict(<<KV("name", Str("x"))>>),
                             Dict(<<KV("extension", Str("csv"))>>)>>))>>,
         <<KV("name", Str("x")), KV("File", Dict(<<KV("extension", Str("csv"))>>))>>}

\* the name the raw metadata of item gives the file
NameConfigured ==
    IF ItemDeclared.metadata \in
           {<<KV("<class File>", Dict(<<KV("name", Str("x")), KV("extension", Str(".csv"))>>))>>,
            <<KV("File", List(<<Dict(<<KV("name", Str("x"))>>),
                                Dict(<<KV("extension", Str("csv"))>>)>>))>>,
            <<KV("name", Str("x")), KV("File", Dict(<<KV("extension", Str("csv"))>>))>>}
    THEN "x" ELSE "item"

\* C9 as stated: for a File field with no explicit extension, the definition
\* build infers txt for a scalar text or number payload, json for an
\* object-like payload, jsonl for a list of object-like payloads, txt for a
\* list of scalars, txt for a union all of whose members are scalars, and
\* leaves the extension unset for any other payload shape.
C9_ExtensionInference ==
    (OneFileField /\ OwnerDefined /\ NoExtensionConfigured) =>
        ExtensionsHeld = {ExtensionOfShape(PayloadDeclared)} \ {None}

\* C10 as stated: when a File field has an extension configured explicitly
\* in any layer's metadata, the definition holds that extension alone, its
\* leading dot stripped, and the file written for the field carries it.
C10_ExplicitExtensionWins ==
    (OneFileField /\ OwnerDefined /\ ExtensionConfigured) =>
        /\ ExtensionsHeld = {Str("csv")}
        /\ (WriteEnded /\ err = NoError) =>
               DOMAIN files = {<<Target, NameConfigured \o ".csv">>}

----------------------------------------------------------------------------
(* Properties of infer *)

\* the file name carries one of the extensions .txt, .json, .jsonl, in
\* either letter case
Recognized(name) == lower(suffix(name)) \in {".txt", ".json", ".jsonl"}

\* the source tree holds a file, at some depth, of another extension
HoldsUnrecognized ==
    \E f \in DOMAIN inputs.tree.files : ~Recognized(f[Len(f)])

\* the directories and files below the target, by their relative names
OutputDirs ==
    {SubSeq(d, 2, Len(d)) : d \in {x \in dirs : Len(x) >= 2 /\ x[1] = Target}}

OutputFiles ==
    {SubSeq(f, 2, Len(f)) : f \in {x \in DOMAIN files : Len(x) >= 2 /\ x[1] = Target}}

\* C1 as stated: for a tree of nested directories and .txt, .json and .jsonl
\* files, infer and then write of the instance into an absent or empty
\* target yields the same relative directory and file names and, for every
\* file, the same contents as the source tree.
C1_RoundTripIdentity ==
    (pc = "done" /\ "tree" \in DOMAIN inputs /\ ~HoldsUnrecognized) =>
        /\ err = NoError
        /\ OutputDirs = inputs.tree.dirs
        /\ OutputFiles = DOMAIN inputs.tree.files
        /\ \A f \in OutputFiles \cap DOMAIN inputs.tree.files :
               files[<<Target>> \o f] = inputs.tree.files[f]

\* C7: infer on a tree that holds, at any depth, a file whose extension is
\* none of .txt, .json, .jsonl raises the error of an unsupported extension
\* (a ValueError) and returns nothing: no record type, instance or schema,
\* and the filesystem is as it was.
C7_UnsupportedExtension ==
    (pc # "infer" /\ "tree" \in DOMAIN inputs /\ HoldsUnrecognized) =>
        /\ pc = "done"
        /\ err = Raise("ValueError", "Unsupported file extension")
        /\ result = NoResult
        /\ classes = <<>>
        /\ dirs = inputs.pre.dirs /\ files = inputs.pre.files

C7_Witness ==
    /\ pc = "done" /\ "tree" \in DOMAIN inputs
    /\ <<"sub", "deep", "notes.md">> \in DOMAIN inputs.tree.files
    /\ <<"a.txt">> \in DOMAIN inputs.tree.files
    /\ \A f \in DOMAIN inputs.tree.files \ {<<"sub", "deep", "notes.md">>} :
           Recognized(f[Len(f)])
    /\ err = Raise("ValueError", "Unsupported file extension")
    /\ result = NoResult

----------------------------------------------------------------------------
(* Properties of a set of reports *)

\* the scenario declares Report and Set; the class Set as declared
SetDeclared == "decls" \in DOMAIN inputs /\ inputs.decls[Len(inputs.decls)].name = "Set"

DeclaredFields(k) == inputs.decls[k].fields

\* the names of the fields, in their order
FieldNames(fields) == [i \in 1..Len(fields) |-> fields[i].name]

\* the position of the field named so in the declaration of Set
PositionOf(name) ==
    CHOOSE i \in 1..Len(DeclaredFields(2)) : DeclaredFields(2)[i].name = name

\* the field of Set an operation of write belongs to: the field itself, or
\* the Directory field holding the record whose field it is
TopField(o) ==
    IF \E i \in 1..Len(DeclaredFields(2)) : DeclaredFields(2)[i].name = o.field
    THEN o.field
    ELSE IF o.path[2] = "cover" THEN "cover" ELSE "reports"

\* the operations of write on behalf of fields, leaving the destination guard
FieldOps == SelectSeq(log, LAMBDA o : o.field # "")

\* the Directory and File fields of Set holding something to write
WrittenFields ==
    {f \in {"reports", "summary", "cover"} :
        /\ getattr(inputs.bundle, f) # None
        /\ getattr(inputs.bundle, f) # List(<<>>)}

\* C11: the definition lists every declared field, Directory, File and Value,
\* in declaration order, and write processes the fields in that order: the
\* operations of a field declared earlier all come before those of a field
\* declared later, inside a nested record too, and every field that holds
\* something is written.
C11_FieldOrder ==
    SetDeclared =>
        /\ \A c \in DOMAIN classes :
               \A k \in 1..Len(inputs.decls) :
                   inputs.decls[k].name = c =>
                       FieldNames(classes[c].fields) = FieldNames(DeclaredFields(k))
        /\ \A k, l \in 1..Len(FieldOps) :
               k < l => PositionOf(TopField(FieldOps[k])) <= PositionOf(TopField(FieldOps[l]))
        /\ \A k, l \in 1..Len(FieldOps) :
               (k < l /\ TopField(FieldOps[k]) = "cover" /\ TopField(FieldOps[l]) = "cover")
                   => ~(FieldOps[k].field = "details" /\ FieldOps[l].field = "body")
        /\ (WriteEnded /\ err = NoError) =>
               {TopField(FieldOps[k]) : k \in 1..Len(FieldOps)} = WrittenFields

C11_Witness ==
    /\ SetDeclared /\ WriteEnded /\ err = NoError
    /\ FieldNames(classes["Set"].fields) = <<"cover", "label", "summary", "reports">>
    /\ WrittenFields = {"reports", "summary", "cover"}
    /\ Len(getattr(inputs.bundle, "reports").items) = 2
    /\ TopField(FieldOps[1]) = "cover"
    /\ TopField(FieldOps[Len(FieldOps)]) = "reports"
    /\ <<Target, "summary.json">> \in DOMAIN files

\* the name hint of the collection reports, as declared
ReportsHinted == get(DeclaredFields(2)[PositionOf("reports")].metadata, "name")

\* the reports the set holds, none when the field is null
ReportsHeld ==
    IF getattr(inputs.bundle, "reports") = None THEN <<>>
    ELSE getattr(inputs.bundle, "reports").items

NameOfReport(r) == getattr(r, "name").s

\* C12: a hint with source 'self', the default, is resolved against the
\* owning instance and a hint with source 'field' against the value being
\* named.  A collection named by ("{name}", "field") whose elements name
\* their File field by "{name}" has each element r written to
\* <target>/<r.name>/<r.name>.txt; named by "{label}" off the owner, every
\* element is written below <target>/<owner.label>; a placeholder that only
\* the other context holds is a missing template variable.
C12_HintSource ==
    (SetDeclared /\ WriteEnded /\ ReportsHeld # <<>>) =>
        CASE ReportsHinted = Tuple(<<Str("{name}"), Str("field")>>) ->
                 /\ err = NoError
                 /\ \A i \in 1..Len(ReportsHeld) :
                        /\ <<Target, NameOfReport(ReportsHeld[i]),
                             NameOfReport(ReportsHeld[i]) \o ".txt">> \in DOMAIN files
                        /\ files[<<Target, NameOfReport(ReportsHeld[i]),
                                   NameOfReport(ReportsHeld[i]) \o ".txt">>]
                               = getattr(ReportsHeld[i], "body").s
          [] ReportsHinted \in {Str("{label}"), Tuple(<<Str("{label}"), Str("SELF")>>)} ->
                 /\ err = NoError
                 /\ \A i \in 1..Len(ReportsHeld) :
                        /\ <<Target, "demo", NameOfReport(ReportsHeld[i]) \o ".txt">>
                               \in DOMAIN files
                        /\ files[<<Target, "demo", NameOfReport(ReportsHeld[i]) \o ".txt">>]
                               = getattr(ReportsHeld[i], "body").s
          [] ReportsHinted = Tuple(<<Str("{label}"), Str("field")>>) ->
                 /\ err = RaiseKey("RenderError", "Missing template variable", "label")
                 /\ \A k \in 1..Len(FieldOps) :
                        TopField(FieldOps[k]) = "reports" => FieldOps[k].op = "raise"
          [] OTHER ->
                 /\ err = RaiseKey("RenderError", "Missing template variable", "name")
                 /\ \A k \in 1..Len(FieldOps) :
                        TopField(FieldOps[k]) = "reports" => FieldOps[k].op = "raise"

C12_Witness ==
    /\ SetDeclared /\ WriteEnded /\ err = NoError
    /\ ReportsHinted = Tuple(<<Str("{name}"), Str("field")>>)
    /\ Len(ReportsHeld) = 2
    /\ files[<<Target, "alpha", "alpha.txt">>] = "body of alpha"
    /\ files[<<Target, "beta", "beta.txt">>] = "body of beta"

----------------------------------------------------------------------------
(* Properties of the index given to hints *)

\* the scenario declares Owner with the field item under hints that show the
\* index
IndexShown ==
    /\ OneHintedField
    /\ inputs.decls[2].name = "Owner"
    /\ NameHinted \in IndexNameHints
    /\ PrefixHinted \in IndexPrefixHints

\* the name the name hint gives the child, resolved with the index text ix,
\* empty when it is resolved with no index
NameShown(child, ix) ==
    CASE NameHinted = None -> "item"
      [] NameHinted = NameOf -> "alpha" \o (IF ix = "" THEN "" ELSE "-" \o ix)
      [] NameHinted = Str("n{index}") -> "n" \o ix
      [] OTHER -> getattr(child, "name").s \o (IF ix = "" THEN "" ELSE "-" \o ix)

\* the directory the prefix hint gives, below the target
PrefixShown(ix) ==
    CASE PrefixHinted = None -> <<Target>>
      [] PrefixHinted = PfxOf -> <<Target, "pre" \o (IF ix = "" THEN "" ELSE "-" \o ix)>>
      [] OTHER -> <<Target, "p" \o ix>>

\* a template hint of item names the placeholder index
IndexPlaceholder ==
    \/ NameHinted \in {Tuple(<<Str("{name}-{index}"), Str("field")>>), Str("n{index}")}
    \/ PrefixHinted = Str("p{index}")

\* the value being named holds the attribute name that the hints with source
\* 'field' read: a record does, the text of a File field does not
SubjectNamed ==
    \/ ItemHeld.t = "inst"
    \/ NameHinted \notin {Tuple(<<NameOf, Str("field")>>),
                          Tuple(<<Str("{name}-{index}"), Str("field")>>)}

\* C13: when the value of a Directory field is a collection, the index given
\* to the name and prefix hints, as callable argument and as the template
\* placeholder index, for the element at position k is k counted from zero;
\* a File field and a Directory value that is no collection are resolved with
\* no index: a callable is called without one, and the placeholder index is
\* a missing template variable.
C13_IndexConvention ==
    (IndexShown /\ WriteEnded) =>
        IF ItemDeclared.annotation = G("Dir", <<G("list", <<T("Child")>>)>>)
        THEN /\ err = NoError
             /\ \A i \in 1..Len(Elements) :
                    /\ PrefixShown(ToString(i - 1))
                           \o <<NameShown(Elements[i], ToString(i - 1))>> \in dirs
                    /\ PrefixShown(ToString(i - 1))
                           \o <<NameShown(Elements[i], ToString(i - 1)), "payload.txt">>
                               \in DOMAIN files
             /\ \A d \in dirs :
                    Len(d) > 1 =>
                        \E i \in 1..Len(Elements) :
                            d \in Prefixes(PrefixShown(ToString(i - 1))
                                     \o <<NameShown(Elements[i], ToString(i - 1))>>)
        ELSE IF IndexPlaceholder /\ SubjectNamed
        THEN err = RaiseKey("RenderError", "Missing template variable", "index")
        ELSE /\ SubjectNamed => err = NoError
             /\ err = NoError =>
                 IF ItemDeclared.annotation = G("Dir", <<T("Child")>>)
                 THEN PrefixShown("") \o <<NameShown(ItemHeld, ""), "payload.txt">>
                          \in DOMAIN files
                 ELSE PrefixShown("") \o <<NameShown(ItemHeld, "") \o ".txt">>
                          \in DOMAIN files

C13_Witness ==
    /\ IndexShown /\ WriteEnded /\ err = NoError
    /\ NameHinted = Tuple(<<NameOf, Str("field")>>)
    /\ PrefixHinted = Str("p{index}")
    /\ Len(Elements) = 3
    /\ files[<<Target, "p0", "alpha-0", "payload.txt">>] = "payload of alpha"
    /\ files[<<Target, "p2", "gamma-2", "payload.txt">>] = "payload of gamma"

----------------------------------------------------------------------------
(* Properties of a File field copied by reference *)

\* the scenario declares the File field asset with copyfile=True
CopyDeclared ==
    "decls" \in DOMAIN inputs /\ inputs.decls[1].name = "CopyFileBundle"

\* the file the value of asset names, as a path of the working directory
AssetNamed == Path(getattr(inputs.bundle, "asset").s)

\* C14 as stated: for a File field declared with copyfile=True whose value, a
\* string or a path object, names an existing file, write copies the bytes
\* of that file to <target>/asset.<extension of the source file> and leaves
\* the source file unchanged.
C14_CopyByReference ==
    (CopyDeclared /\ WriteEnded /\ AssetNamed \in DOMAIN inputs.pre.files) =>
        /\ err = NoError
        /\ <<Target, "asset" \o suffix(Name(AssetNamed))>> \in DOMAIN files
        /\ files[<<Target, "asset" \o suffix(Name(AssetNamed))>>]
               = inputs.pre.files[AssetNamed]
        /\ files[AssetNamed] = inputs.pre.files[AssetNamed]

\* C15 as stated: for a File field declared with copyfile=True whose string
\* value names a file that does not exist, write does not raise; it emits a
\* warning and writes the path string itself as the text of
\* <target>/asset.txt.
C15_CopyFallback ==
    (/\ CopyDeclared /\ WriteEnded
     /\ getattr(inputs.bundle, "asset").t = "str"
     /\ AssetNamed \notin DOMAIN inputs.pre.files) =>
        /\ err = NoError
        /\ \E k \in 1..Len(log) : log[k].op = "warn"
        /\ <<Target, "asset.txt">> \in DOMAIN files
        /\ files[<<Target, "asset.txt">>] = getattr(inputs.bundle, "asset").s

\* infer has returned a bundle
InferReturned == "tree" \in DOMAIN inputs /\ result # NoResult

\* the entries of $defs in the schema returned
SchemaDefs == get(result.schema.items, "$defs").items

\* C16 as stated: within one infer call the synthesized type names of all
\* visited directories are pairwise distinct, so that $defs holds exactly
\* one entry per synthesized type: as many entries as there are directories
\* in the tree, the root included.
C16_SchemaDefsUnique ==
    InferReturned =>
        /\ \A c, d \in DOMAIN classes : c # d => classes[c].name # classes[d].name
        /\ \A i, j \in 1..Len(SchemaDefs) : i # j => SchemaDefs[i].k # SchemaDefs[j].k
        /\ Len(SchemaDefs) = Cardinality(inputs.tree.dirs) + 1

----------------------------------------------------------------------------
(* Properties of the fields write passes over *)

\* the fields of Set that are Directory or File fields holding a value
FieldsHeld ==
    {classes["Set"].fields[i].name :
        i \in {k \in 1..Len(classes["Set"].fields) :
                  /\ classes["Set"].fields[k].kind \in {"dir", "file"}
                  /\ getattr(inputs.bundle, classes["Set"].fields[k].name) # None}}

\* the names of the entries of the target a field of Set may make
EntryNames(f) ==
    CASE f = "summary" -> {"summary.json"}
      [] f = "cover" -> {"cover"}
      [] f = "reports" ->
            {"demo"} \cup {NameOfReport(ReportsHeld[i]) : i \in 1..Len(ReportsHeld)}
      [] OTHER -> {}

----------------------------------------------------------------------------
(* Properties of a Dir annotation at the definition build *)

\* the field item is declared under one of the Dir annotations
DirAnnotated == inputs \in AnnotationScenarios

\* the definition build of Owner has returned, or raised
BuildEnded == pc # "declare"

\* the field item of the definition built
ItemDefined == classes["Owner"].fields[3]

\* the Dir wrapper of the annotation and its argument
DirWrapper == Bare(ItemDeclared.annotation)
DirArgument == Bare(DirWrapper.a[1])

\* a record type: a class decorated with @bundle
IsRecordType(a) == ~a.gen /\ a.o \in {d.name : d \in {inputs.decls[1]}}

IsCollectionWrapper(a) == a.gen /\ a.o \in _DIR_COLLECTION_ORIGINS

\* a record type directly, or after exactly one collection level is unwrapped
ResolvesToRecord(a) ==
    \/ IsRecordType(a)
    \/ IsCollectionWrapper(a) /\ a.a # <<>> /\ IsRecordType(Bare(a.a[1]))

\* C18: building a definition raises InvalidAnnotation when a Dir wrapper has
\* zero or more than one type argument, or when its argument is not a record
\* type directly or after unwrapping exactly one collection level (a Dir of a
\* collection of a collection is rejected); otherwise the field is a
\* Directory, a collection exactly when the argument is a collection wrapper.
C18_DirAnnotation ==
    (DirAnnotated /\ BuildEnded) =>
        IF Len(DirWrapper.a) # 1 \/ ~ResolvesToRecord(DirArgument)
        THEN /\ "Owner" \notin DOMAIN classes
             /\ err.type = "InvalidBundleAnnotation"
        ELSE /\ "Owner" \in DOMAIN classes
             /\ ItemDefined.kind = "dir"
             /\ ItemDefined.is_collection = IsCollectionWrapper(DirArgument)

----------------------------------------------------------------------------
(* Properties of a raw name or prefix value at the definition build *)

\* the field item is declared with one raw name or prefix value
HintGiven == inputs \in RawHintScenarios

\* the entry, the raw value, and the value and source text the raw value gives
EntryGiven == ItemDeclared.metadata[1].k
RawGiven == ItemDeclared.metadata[1].v
ValueGiven == IF RawGiven.t = "tuple" THEN RawGiven.items[1] ELSE RawGiven
SourceGiven == IF RawGiven.t = "tuple" THEN RawGiven.items[2].s ELSE "self"

\* the hint the definition holds for the entry, None without one
HintHeld == get(ItemDefined.metadata[1].data, EntryGiven)

\* the kind of hint a callable or a text makes
KindOf(value) ==
    IF value.t = "callable" THEN "callable"
    ELSE IF contains(value.s, "{") /\ contains(value.s, "}")
    THEN "template"
    ELSE "literal"

\* the raw value normalized, its source read as the text source
NormalizedUnder(source) ==
    (HintGiven /\ BuildEnded) =>
        IF RawGiven = None
        THEN "Owner" \in DOMAIN classes /\ HintHeld = None
        ELSE IF source \notin {"self", "field"} \/ ValueGiven = Str("")
        THEN "Owner" \notin DOMAIN classes /\ err.type = "BundleMetadataError"
        ELSE /\ "Owner" \in DOMAIN classes
             /\ HintHeld = Hint(KindOf(ValueGiven), ValueGiven, source)

\* C19 as stated: null gives no hint; a pair (value, source) takes the source,
\* which must be self or field whatever its case, else MetadataError; without
\* a pair the source is self; a callable gives a Callable hint, text with both
\* braces a Template hint, other non-empty text a Literal hint, and empty text
\* raises MetadataError.
C19_HintNormalizationExact == NormalizedUnder(lower(SourceGiven))

\* C19: the same, the source being self or field whatever its case and
\* whatever blanks surround it.
C19_HintNormalization == NormalizedUnder(lower(strip(SourceGiven, " ")))

\* a source written in capitals between blanks is taken as field
C19_Witness ==
    /\ HintGiven /\ BuildEnded
    /\ RawGiven = Tuple(<<NameOf, Str(" Field")>>)
    /\ HintHeld = Hint("callable", NameOf, "field")
    /\ WriteEnded

----------------------------------------------------------------------------
(* Properties of the metadata records of a field *)

\* the field item is declared with raw metadata that names layers
LayersGiven == inputs \in LayeredScenarios

\* the layer the plain keys of the field belong to
RootLayer == Bare(ItemDeclared.annotation).o

\* the (layer, index) pairs the raw item i assigns metadata to
Assigned(i) ==
    IF LayerOfKey(ItemDeclared.metadata[i].k) = "None" THEN {<<RootLayer, 0>>}
    ELSE IF ItemDeclared.metadata[i].v.t = "dict"
    THEN {<<LayerOfKey(ItemDeclared.metadata[i].k), 0>>}
    ELSE IF ItemDeclared.metadata[i].v.t \in {"list", "tuple"}
    THEN {<<LayerOfKey(ItemDeclared.metadata[i].k), n - 1>> :
             n \in 1..Len(ItemDeclared.metadata[i].v.items)}
    ELSE {}

\* two raw items, not both plain keys, assign to the same (layer, index)
AssignedTwice ==
    \E i, j \in 1..Len(ItemDeclared.metadata) :
        /\ i < j
        /\ LayerOfKey(ItemDeclared.metadata[i].k) # "None"
               \/ LayerOfKey(ItemDeclared.metadata[j].k) # "None"
        /\ Assigned(i) \cap Assigned(j) # {}

\* C20: the normalized metadata of a field holds at most one record per
\* (layer, index) pair, and raw metadata that assigns twice to the same
\* (layer, index), such as plain keys together with a mapping for the root
\* layer of the field, raises a metadata configuration error.
C20_MetadataUnique ==
    (LayersGiven /\ BuildEnded) =>
        /\ "Owner" \in DOMAIN classes =>
               \A i, j \in 1..Len(ItemDefined.metadata) :
                   (/\ ItemDefined.metadata[i].layer = ItemDefined.metadata[j].layer
                    /\ ItemDefined.metadata[i].index = ItemDefined.metadata[j].index)
                       => i = j
        /\ AssignedTwice =>
               /\ "Owner" \notin DOMAIN classes
               /\ err.type = "BundleMetadataError"

----------------------------------------------------------------------------
(* Properties of the arguments a callable hint is called with *)

\* the field item is named or prefixed by a function that shows its arguments
CallableGiven == inputs \in CallableScenarios

\* the [index, child] pairs the field item is written as
ItemEntries ==
    IF ItemHeld.t = "list"
    THEN [i \in 1..Len(ItemHeld.items) |->
             [index |-> PyInt(i - 1), child |-> ItemHeld.items[i]]]
    ELSE <<[index |-> None, child |-> ItemHeld]>>

\* the arguments the function is to receive for a context and an index
ArgsDue(func, context, index) ==
    IF func.params = 0 /\ ~func.varargs THEN <<>>
    ELSE <<context>>
             \o (IF index # None /\ (func.params >= 2 \/ func.varargs)
                 THEN <<index>> ELSE <<>>)

\* the text the hint of entry e is to resolve to
TextDue(e) ==
    Shown(ArgsDue(ValueGiven,
                  IF SourceGiven = "self" THEN inputs.bundle ELSE e.child,
                  e.index))

\* the path entry e is written at when its hint resolves to text
PathDue(text) ==
    IF EntryGiven = "prefix" THEN <<Target, text, "item">>
    ELSE <<Target, text>>

FilePathDue(text) ==
    IF EntryGiven = "prefix" THEN <<Target, text, "item.txt">>
    ELSE <<Target, text \o ".txt">>

\* C21: a callable hint with no positional parameter and no *args is called
\* without arguments; every other callable, one that only takes *args too,
\* receives the context first, then the index if there is one and the
\* callable takes a second positional parameter or *args; the result is
\* taken as text.
C21_CallableArity ==
    (CallableGiven /\ WriteEnded) =>
        /\ err = NoError
        /\ \A i \in 1..Len(ItemEntries) :
               IF Bare(ItemDeclared.annotation).o = "File"
               THEN FilePathDue(TextDue(ItemEntries[i])) \in DOMAIN files
               ELSE PathDue(TextDue(ItemEntries[i])) \in dirs

----------------------------------------------------------------------------
(* Properties of the payload of a File field *)

\* the scenario holds one File field with a payload under an extension
PayloadGiven == inputs \in PayloadScenarios

\* the extension configured, None without one, and the path of the file
ExtensionGiven == get(ItemDeclared.metadata, "extension")

PayloadPath ==
    IF ExtensionGiven = None THEN <<Target, "item">>
    ELSE <<Target, "item." \o ExtensionGiven.s>>

\* the payload is bytes or text
Verbatim(v) == v.t \in {"bytes", "str"}

\* json can encode the value
RECURSIVE Encodable(_)
Encodable(v) ==
    \/ v.t \in {"none", "bool", "int", "str"}
    \/ v.t \in {"list", "tuple"} /\ \A i \in 1..Len(v.items) : Encodable(v.items[i])
    \/ v.t = "dict" /\ \A i \in 1..Len(v.items) : Encodable(v.items[i].v)

\* the records an iterable payload yields: the elements, the keys of a mapping
Records(v) ==
    IF v.t = "dict" THEN [i \in 1..Len(v.items) |-> Str(v.items[i].k)] ELSE v.items

Iterable(v) == v.t \in {"list", "tuple", "dict"}

\* one JSON encoding per line, in order
RECURSIVE Lines(_)
Lines(records) ==
    IF records = <<>> THEN ""
    ELSE dumps(Head(records)).s \o "\n" \o Lines(Tail(records))

\* the file of the field holds the text, and write returned
Stored(text) ==
    /\ err = NoError
    /\ PayloadPath \in DOMAIN files
    /\ files[PayloadPath] = text

\* write raised RenderError and made no file for the field
Refused == err.type = "RenderError" /\ PayloadPath \notin DOMAIN files

EncodingFails ==
    /\ ~Verbatim(ItemHeld)
    /\ \/ ExtensionGiven = Str("json") /\ ~Encodable(ItemHeld)
       \/ /\ ExtensionGiven = Str("jsonl") /\ Iterable(ItemHeld)
          /\ \E i \in 1..Len(Records(ItemHeld)) : ~Encodable(Records(ItemHeld)[i])

\* C23: when encoding the payload of a File field fails during write (a json
\* payload, or a later jsonl record, that json cannot encode), no file for
\* that field, neither empty nor partly written, exists at its path after
\* the error.
C23_NoPartialFile ==
    (PayloadGiven /\ WriteEnded /\ EncodingFails) =>
        /\ err # NoError
        /\ PayloadPath \notin DOMAIN files

----------------------------------------------------------------------------
(* Properties of the order a tree is written in *)

\* the scenario declares the tree of branches and leaves
TreeDeclared == inputs \in TreeScenarios

\* what a field of the instance is written as under base, in order: the
\* directories of the elements of a collection, one directory, or one file
UnitsOf(f, instance, base) ==
    IF f.name \in {"branches", "leaves"}
    THEN [i \in 1..Len(getattr(instance, f.name).items) |->
             base \o <<getattr(getattr(instance, f.name).items[i], "name").s>>]
    ELSE IF f.name = "single" THEN <<base \o <<"single">>>>
    ELSE <<base \o <<f.name \o ".txt">>>>

\* the units of the fields, in the order the fields are declared
UnitsIn(fields, instance, base) ==
    Concat([i \in 1..Len(fields) |-> UnitsOf(fields[i], instance, base)])

\* no operation on a unit is performed after an operation on a later unit
InOrder(units) ==
    \A a, b \in DOMAIN log :
        a < b =>
            \A i, j \in DOMAIN units :
                (IsUnder(log[a].path, units[i]) /\ IsUnder(log[b].path, units[j]))
                    => i <= j

\* the directory a file is written in was made by an earlier operation, and
\* a directory never exists without the directory it lies in
ParentFirst ==
    /\ \A k \in DOMAIN log :
           log[k].op \in {"write", "open", "append"} =>
               \E j \in 1..(k - 1) :
                   /\ log[j].op = "mkdir"
                   /\ IsUnder(log[j].path, Parent(log[k].path))
    /\ \A p \in dirs \cup DOMAIN files : p # <<>> => Parent(p) \in dirs

\* the fields of the tree, and of every branch, are written one after the
\* other, each element of a collection whole before the next
DepthFirst ==
    /\ InOrder(UnitsIn(inputs.decls[3].fields, inputs.bundle, <<Target>>))
    /\ \A b \in 1..Len(getattr(inputs.bundle, "branches").items) :
           InOrder(UnitsIn(inputs.decls[2].fields,
                           getattr(inputs.bundle, "branches").items[b],
                           <<Target, "branch" \o ToString(b)>>))

\* C24: during write every directory is created before any file or
\* sub-directory inside it is written, and the whole subtree of one
\* Directory element is written before the next element or the next sibling
\* field is started.
C24_WriteOrdering == ParentFirst /\ (TreeDeclared => DepthFirst)

\* a tree of two branches of two leaves each, written to the end
C24_Witness ==
    /\ TreeDeclared /\ WriteEnded /\ err = NoError
    /\ {<<Target, "branch1", "alpha", "payload.txt">>,
        <<Target, "branch1", "beta", "payload.txt">>,
        <<Target, "branch2", "beta", "payload.txt">>,
        <<Target, "branch2", "gamma", "payload.txt">>,
        <<Target, "branch2", "note.txt">>,
        <<Target, "single", "payload.txt">>,
        <<Target, "summary.txt">>} \subseteq DOMAIN files

----------------------------------------------------------------------------
(* Properties of the paths one write call writes *)

\* the field item is declared beside tail under one of the shared name hints
SharedDeclared == inputs \in SharedScenarios

\* the operations that start a file: write_text, write_bytes, open("w")
StartsFile(o) == o.op \in {"write", "open"}

\* C27: during one write call no file path is written more than once:
\* distinct File fields and distinct elements of a Directory collection never
\* resolve to the same file path, so no payload is overwritten by another
\* payload of the same bundle.
C27_NoWriteCollision ==
    \A a, b \in DOMAIN log :
        (a < b /\ StartsFile(log[a]) /\ StartsFile(log[b]))
            => log[a].path # log[b].path


\* the name or the prefix of the field item is a path
PathHinted == inputs \in PathScenarios

\* what write made: the directories and files that were not there before
Made == (dirs \cup DOMAIN files) \ (inputs.pre.dirs \cup DOMAIN inputs.pre.files)

\* C28: every directory and file created by write lies inside the target
\* directory; no resolved name or prefix (a literal, a template result or a
\* callable result, an absolute path or a ".." segment included) makes write
\* create or overwrite anything outside the target.
C28_Containment ==
    /\ \A p \in Made : IsUnder(p, <<Target>>)
    /\ \A p \in DOMAIN inputs.pre.files :
           ~IsUnder(p, <<Target>>) => files[p] = inputs.pre.files[p]


----------------------------------------------------------------------------
(* Properties of the fields infer synthesizes *)

\* the directories infer visits: the source and every directory below it
Visited == {Path(inputs.source) \o d : d \in inputs.tree.dirs \cup {<<>>}}

\* the class made for the directory at path, and its fields
ClassAt(path) ==
    CHOOSE c \in DOMAIN classes :
        c = ClassOf(classes[c].name, Path(inputs.source), path)

FieldsAt(path) == classes[ClassAt(path)].fields

\* the name hint and the extension a field holds for its layer
NameHintOf(field) ==
    get(_metadata_for_layer(field.metadata,
                            IF field.kind = "dir" THEN "Dir" ELSE "File"), "name")

ExtensionPinned(field) ==
    get(_metadata_for_layer(field.metadata, "File"), "extension")

\* a Python identifier that is not a keyword
IsIdentifier(s) ==
    /\ s # ""
    /\ Char(s, 1) \in LowerLetters \cup UpperLetters \cup {"_"}
    /\ \A i \in 1..Len(s) : IsAlnum(Char(s, i)) \/ Char(s, i) = "_"
    /\ s \notin PythonKeywords

\* the field synthesized for the entry: a Literal hint of its name, and for
\* a file of its stem with the extension pinned
SynthesizedFor(field, entry) ==
    IF is_dir(inputs.pre, entry)
    THEN /\ field.kind = "dir"
         /\ NameHintOf(field) = Hint("literal", Str(Name(entry)), "self")
    ELSE /\ field.kind = "file"
         /\ NameHintOf(field) = Hint("literal", Str(stem(Name(entry))), "self")
         /\ ExtensionPinned(field) = Str(lstrip(lower(suffix(Name(entry))), "."))

\* the entries of one directory each have their field, under distinct names
FieldsSynthesized(path) ==
    /\ \A entry \in iterdir(inputs.pre, path) :
           \E i \in 1..Len(FieldsAt(path)) : SynthesizedFor(FieldsAt(path)[i], entry)
    /\ Len(FieldsAt(path)) = Cardinality(iterdir(inputs.pre, path))
    /\ \A i, j \in 1..Len(FieldsAt(path)) :
           i # j => FieldsAt(path)[i].name # FieldsAt(path)[j].name
    /\ \A i \in 1..Len(FieldsAt(path)) : IsIdentifier(FieldsAt(path)[i].name)

\* an entry of the directory has braces in its name
BracesNamed(path) ==
    \E entry \in iterdir(inputs.pre, path) :
        contains(Name(entry), "{") /\ contains(Name(entry), "}")

\* C25 as stated: for every sub-directory entry infer synthesizes a field
\* whose name metadata is a Literal hint equal to the entry's original name,
\* and for every file entry a field whose name metadata is a Literal hint
\* equal to the file's stem with the extension pinned; the field names within
\* one directory are pairwise distinct valid identifiers.
C25_FieldSynthesis ==
    InferReturned => \A path \in Visited : FieldsSynthesized(path)

\* the same for the directories none of whose entries has braces in its name
C25_FieldSynthesisPlain ==
    InferReturned =>
        \A path \in Visited : ~BracesNamed(path) => FieldsSynthesized(path)

\* a directory whose entries collide, start with a digit or are keywords
C25_PlainReached ==
    /\ InferReturned
    /\ <<Source, "a_b">> \in inputs.pre.dirs
    /\ {"a_b", "a_b_2", "a_b_2_2", "class_", "n_9"}
           \subseteq {FieldsAt(<<Source>>)[i].name : i \in 1..Len(FieldsAt(<<Source>>))}


----------------------------------------------------------------------------
(* Properties of the schema inferred for a decoded JSON value *)

TypeOnly(name) == Dict(<<KV("type", Str(name))>>)

RECURSIVE Describes(_, _)
RECURSIVE ItemsDescribe(_, _)

\* items is the one schema all the elements share, or the anyOf of the
\* distinct schemas of the elements
ItemsDescribe(items, elements) ==
    \/ \A i \in 1..Len(elements) : Describes(items, elements[i])
    \/ /\ Len(items.items) = 1
       /\ items.items[1].k = "anyOf"
       /\ Len(items.items[1].v.items) >= 2
       /\ \A i, j \in 1..Len(items.items[1].v.items) :
              i # j => items.items[1].v.items[i] # items.items[1].v.items[j]
       /\ \A i \in 1..Len(elements) :
              \E j \in 1..Len(items.items[1].v.items) :
                  Describes(items.items[1].v.items[j], elements[i])
       /\ \A j \in 1..Len(items.items[1].v.items) :
              \E i \in 1..Len(elements) :
                  Describes(items.items[1].v.items[j], elements[i])

\* properties holds a schema for every key of the object, in sorted key order
PropertiesDescribe(properties, members) ==
    /\ Len(properties) = Len(members)
    /\ \A i, j \in 1..Len(properties) :
           i < j => StrLess(properties[i].k, properties[j].k)
    /\ \A i \in 1..Len(properties) :
           /\ has_key(members, properties[i].k)
           /\ Describes(properties[i].v, get(members, properties[i].k))

\* the schema is the structural schema of the value
Describes(schema_, value) ==
    CASE value.t = "none" -> schema_ = TypeOnly("null")
      [] value.t = "bool" -> schema_ = TypeOnly("boolean")
      [] value.t = "int" -> schema_ = TypeOnly("integer")
      [] value.t = "float" -> schema_ = TypeOnly("number")
      [] value.t = "str" -> schema_ = TypeOnly("string")
      [] value.t = "list" ->
            IF value.items = <<>> THEN schema_ = TypeOnly("array")
            ELSE /\ Len(schema_.items) = 2
                 /\ schema_.items[1] = KV("type", Str("array"))
                 /\ schema_.items[2].k = "items"
                 /\ ItemsDescribe(schema_.items[2].v, value.items)
      [] value.t = "dict" ->
            IF value.items = <<>> THEN schema_ = TypeOnly("object")
            ELSE /\ Len(schema_.items) = 3
                 /\ schema_.items[1] = KV("type", Str("object"))
                 /\ schema_.items[2].k = "properties"
                 /\ PropertiesDescribe(schema_.items[2].v.items, value.items)
                 /\ schema_.items[3] =
                        KV("required",
                           List([i \in 1..Len(schema_.items[2].v.items) |->
                                    Str(schema_.items[2].v.items[i].k)]))
      [] OTHER -> FALSE

\* the instances infer built: the root instance and those nested in it
RECURSIVE InstancesIn(_)
InstancesIn(instance) ==
    {instance} \cup UNION {InstancesIn(instance.vals[i].v) :
                              i \in {k \in 1..Len(instance.vals) :
                                        instance.vals[k].v.t = "inst"}}

\* the properties of one schema entry that stand for .json files, each with
\* the decoded value the instance of that directory holds for it
JsonPropertiesOf(entry, instance) ==
    {[shape |-> get(entry.items, "properties").items[i].v,
      value |-> getattr(instance, get(entry.items, "properties").items[i].k)] :
        i \in {k \in 1..Len(get(entry.items, "properties").items) :
                  get(get(get(entry.items, "properties").items[k].v.items,
                          "x-pyarty").items, "extension") = Str("json")}}

\* the schema entry of the class of the instance
EntryOf(instance) == get(SchemaDefs, classes[instance.cls].name)

JsonProperties ==
    UNION {JsonPropertiesOf(EntryOf(instance), instance) :
              instance \in InstancesIn(result.instance)}

\* the schema of a property without its side-channel annotation
ShapeOf(property) ==
    Dict(SelectSeq(property.shape.items, LAMBDA kv : kv.k # "x-pyarty"))

\* C26: for every decoded JSON value the inferred schema is string, integer,
\* number, boolean or null for a scalar (a boolean is never an integer), an
\* object schema whose properties are the recursively inferred schemas in
\* sorted key order, all listed as required, and an array schema whose items
\* is a single schema when all elements agree, otherwise anyOf of the
\* distinct element schemas.  An empty array has no items and an empty
\* object no properties.
C26_SchemaInference ==
    InferReturned =>
        \A property \in JsonProperties : Describes(ShapeOf(property), property.value)

\* the document with an array of every kind of scalar has been inferred
C26_Witness ==
    /\ InferReturned
    /\ <<Source, "b.json">> \in DOMAIN inputs.pre.files
    /\ inputs.pre.files[<<Source, "b.json">>] = MixedJson
    /\ \E property \in JsonProperties :
           ShapeOf(property) =
               Dict(<<KV("type", Str("object")),
                      KV("properties",
                         Dict(<<KV("b",
                                   Dict(<<KV("type", Str("array")),
                                          KV("items",
                                             Dict(<<KV("anyOf",
                                                       List(<<TypeOnly("integer"),
                                                              TypeOnly("boolean"),
                                                              TypeOnly("string"),
                                                              TypeOnly("number"),
                                                              TypeOnly("null")>>))>>))>>))>>)),
                      KV("required", List(<<Str("b")>>))>>)

\* the document with keys out of order and repeated shapes has been inferred
C26_SortedReached ==
    /\ InferReturned
    /\ <<Source, "b.json">> \in DOMAIN inputs.pre.files
    /\ inputs.pre.files[<<Source, "b.json">>] = RichJson
    /\ \E property \in JsonProperties :
           ShapeOf(property) =
               Dict(<<KV("type", Str("object")),
                      KV("properties",
                         Dict(<<KV("a",
                                   Dict(<<KV("type", Str("object")),
                                          KV("properties",
                                             Dict(<<KV("y", TypeOnly("object")),
                                                    KV("z", TypeOnly("array"))>>)),
                                          KV("required", List(<<Str("y"), Str("z")>>))>>)),
                                KV("b",
                                   Dict(<<KV("type", Str("array")),
                                          KV("items",
                                             Dict(<<KV("type", Str("array")),
                                                    KV("items", TypeOnly("integer"))>>))>>))>>)),
                      KV("required", List(<<Str("a"), Str("b")>>))>>)


----------------------------------------------------------------------------
(* Properties of the references in the schema infer returns *)

\* the path recorded in the side-channel annotation of a schema
RecordedPath(schema_) == get(get(schema_.items, "x-pyarty").items, "path")

\* the reference names an entry of $defs whose recorded path is path
RefersTo(ref, path) ==
    \E d \in 1..Len(SchemaDefs) :
        /\ ref = Str("#/$defs/" \o SchemaDefs[d].k)
        /\ RecordedPath(SchemaDefs[d].v) = path

\* the Directory properties of the schema: those of every entry of $defs
\* that hold a reference
DirectoryProperties ==
    UNION {{get(SchemaDefs[d].v.items, "properties").items[i].v :
               i \in {k \in 1..Len(get(SchemaDefs[d].v.items, "properties").items) :
                         has_key(get(SchemaDefs[d].v.items, "properties").items[k].v.items,
                                 "$ref")}} :
           d \in 1..Len(SchemaDefs)}

RefsIntact ==
    /\ RefersTo(get(result.schema.items, "$ref"), Str("."))
    /\ \A property \in DirectoryProperties :
           RefersTo(get(property.items, "$ref"), RecordedPath(property))

\* C29 as stated: in the schema returned by infer the root $ref names the
\* $defs entry of the root directory, and the $ref of every Directory
\* property names a $defs entry whose recorded originating path is the
\* relative path of that sub-directory.
C29_SchemaRefIntegrity == InferReturned => RefsIntact

\* the same when the directories got pairwise distinct type names
C29_SchemaRefIntegrityDistinct ==
    (/\ InferReturned
     /\ \A c, d \in DOMAIN classes : c # d => classes[c].name # classes[d].name) =>
        RefsIntact

\* a tree of nested directories with distinct type names has been inferred
C29_DistinctReached ==
    /\ InferReturned
    /\ <<"sub", "deep">> \in inputs.tree.dirs
    /\ <<"My Dir">> \in inputs.tree.dirs
    /\ Cardinality(DirectoryProperties) = 3
    /\ RefsIntact

=============================================================================
